---- MODULE Spec2Model ----
(***************************************************************************)
(* Model of the offer-eligibility service: the validation package, the     *)
(* SQLite record store (package database), and the service layer that      *)
(* validates, persists and evaluates.                                      *)
(*                                                                         *)
(* Identifiers are short names standing for UUID strings.  A time.Time is  *)
(* a record [sec, nsec, off]: seconds relative to the reference instant    *)
(* T0 (2025-10-21T10:00:00Z), the sub-second part in nanoseconds, and the  *)
(* zone offset in seconds east of UTC.  A stored timestamp is the text     *)
(* produced by Format(time.RFC3339), modelled as [local, zone]: the local  *)
(* date-time to the second and the zone suffix; SQLite compares such texts *)
(* byte by byte.                                                           *)
(***************************************************************************)
EXTENDS Integers, Sequences, FiniteSets, TLC

VARIABLES offers, txns, clock, ticks, last

\* the store calls in flight when calls run concurrently:
\*   sqlTx          the open SQL transaction of each InsertTransactions call
\*   pendingUpserts the UpsertOffer calls whose statement has not run yet
\*   committed      the rows of every batch committed so far, batch by batch
VARIABLES sqlTx, pendingUpserts, committed

\* a GetEligibleOffers call in progress: what it has read so far
VARIABLE evaluation

inFlight == <<sqlTx, pendingUpserts, committed, evaluation>>

\* the rate limiter (package middleware):
\*   clients   RateLimiter.clients: for each key the clientLimiter its entry
\*             points to, 0 when the key has no entry
\*   limiters  the clientLimiter objects allocated so far
\*   calls     the position of each Allow call and the pointer it holds
\*   ticker    time.Now() as the limiter reads it, in ticks
\*   granted   for each key the Allow calls that returned true since the
\*             time last advanced
VARIABLES clients, limiters, calls, ticker, granted

rateLimiter == <<clients, limiters, calls, ticker, granted>>

vars ==
    <<offers, txns, clock, ticks, last, sqlTx, pendingUpserts, committed,
      evaluation, clients, limiters, calls, ticker, granted>>

----------------------------------------------------------------------------
(* Units and bounds *)

Hour == 60 * 60
Day == 24 * Hour

\* reference instant 2025-10-21T10:00:00Z
T0 == 0

\* number of clock advances explored
MaxTicks == 1
\* longest batch handed to CreateTransactions
MaxBatch == 2

MaxBatchSize == 1000
MaxAmountCents == 100000000
MaxLookbackDays == 365
MaxWhitelistLen == 100
\* days between a date of 2025 and the same date ten years earlier
\* (AddDate(-10, 0, 0): leap days of 2016, 2020 and 2024)
TenYearsDays == 10 * 365 + 3
\* maxDuration := 2 * 365 * 24 * time.Hour
MaxOfferDays == 2 * 365

NoErr == "nil"

----------------------------------------------------------------------------
(* time.Time *)

Time(s, ns, o) == [sec |-> s, nsec |-> ns, off |-> o]

UTC(t) == [t EXCEPT !.off = 0]

HalfSecond == 500 * 1000 * 1000

\* the zero time.Time (January 1, year 1), far before every other instant
ZeroTime == Time(-(60 * 365 * Day), 0, 0)

IsZero(t) == t.sec = ZeroTime.sec /\ t.nsec = 0

Before(a, b) == a.sec < b.sec \/ (a.sec = b.sec /\ a.nsec < b.nsec)

After(a, b) == Before(b, a)

TimeEqual(a, b) == a.sec = b.sec /\ a.nsec = b.nsec

AddSeconds(t, d) == [t EXCEPT !.sec = t.sec + d]

\* t.AddDate(0, 0, days) in a zone without daylight saving
AddDays(t, days) == AddSeconds(t, days * Day)

\* t.Format(time.RFC3339): local date-time to the second, then "Z" or the
\* numeric offset; the sub-second part is not printed
Format(t) == [local |-> t.sec + t.off, zone |-> t.off]

\* time.Parse(time.RFC3339, s)
Parse(s) == Time(s.local - s.zone, 0, s.zone)

\* byte order of the zone suffixes: '+' (0x2B) < '-' (0x2D) < 'Z' (0x5A),
\* then the digits of hh:mm
ZoneClass(z) == IF z = 0 THEN 2 ELSE IF z > 0 THEN 0 ELSE 1

ZoneDigits(z) == IF z < 0 THEN (-z) \div 60 ELSE z \div 60

ZoneLess(a, b) ==
    \/ ZoneClass(a) < ZoneClass(b)
    \/ (ZoneClass(a) = ZoneClass(b) /\ ZoneDigits(a) < ZoneDigits(b))

\* SQLite's comparison of two TEXT values holding RFC3339 timestamps
\* (BINARY collation, memcmp)
TextLess(a, b) ==
    \/ a.local < b.local
    \/ (a.local = b.local /\ ZoneLess(a.zone, b.zone))

TextLE(a, b) == TextLess(a, b) \/ a = b

----------------------------------------------------------------------------
(* package validation *)

\* the strings that match uuidRegex
WellFormedUUIDs ==
    {"o1", "o2", "m1", "m2", "m3", "u1", "u2", "t1", "t2", "t3", "t4"}
        \cup {"b" \o ToString(n) : n \in 1..(MaxBatchSize + 1)}

\* strings.ToLower on the identifiers of the model
ToLower(s) == IF s = "U1" THEN "u1" ELSE s

\* SanitizeString: control characters removed, surrounding space trimmed
SanitizeString(s) ==
    IF s = " u1 " THEN "u1"
    ELSE IF s = " o1 " THEN "o1"
    ELSE IF s = " t1 " THEN "t1"
    ELSE IF s = "5812 " THEN "5812"
    ELSE s

\* the strings that match mccRegex (four ASCII digits)
FourDigitCodes ==
    {"5812", "5814", "5411"} \cup {ToString(n) : n \in 1000..1100}

ValidateUUID(id, fieldName) ==
    IF id = "" THEN fieldName \o ": is required"
    ELSE IF ToLower(SanitizeString(id)) \notin WellFormedUUIDs
         THEN fieldName \o ": must be a valid UUID v4"
         ELSE NoErr

validateMCC(mcc) ==
    IF mcc = "" THEN "mcc: is required"
    ELSE IF SanitizeString(mcc) \notin FourDigitCodes
         THEN "mcc: must be a 4-digit numeric code"
         ELSE NoErr

\* the loop over the list returns at the first index whose code is invalid
\* or was seen at an earlier index, the validity tested first
validateMCCWhitelist(mccList) ==
    IF Len(mccList) = 0 THEN NoErr
    ELSE IF Len(mccList) > MaxWhitelistLen
         THEN "mcc_whitelist: cannot contain more than 100 MCC codes"
    ELSE LET invalid == {i \in 1..Len(mccList) :
                            validateMCC(mccList[i]) # NoErr}
             seen    == {j \in 1..Len(mccList) :
                            \E k \in 1..(j - 1) : mccList[k] = mccList[j]}
             returns == invalid \cup seen
             first   == CHOOSE i \in returns : \A j \in returns : i <= j
         IN  IF returns = {} THEN NoErr
             ELSE IF first \in invalid
                  THEN "mcc_whitelist[i]: must be a 4-digit numeric code"
                  ELSE "mcc_whitelist: duplicate MCC code"

ValidateOffer(offer) ==
    IF ValidateUUID(offer.id, "id") # NoErr
        THEN ValidateUUID(offer.id, "id")
    ELSE IF ValidateUUID(offer.merchant_id, "merchant_id") # NoErr
        THEN ValidateUUID(offer.merchant_id, "merchant_id")
    ELSE IF validateMCCWhitelist(offer.mcc_whitelist) # NoErr
        THEN validateMCCWhitelist(offer.mcc_whitelist)
    ELSE IF offer.min_txn_count < 0
        THEN "min_txn_count: must be non-negative"
    ELSE IF offer.lookback_days < 0
        THEN "lookback_days: must be non-negative"
    ELSE IF offer.lookback_days > MaxLookbackDays
        THEN "lookback_days: cannot exceed 365 days"
    ELSE IF IsZero(offer.starts_at)
        THEN "starts_at: is required"
    ELSE IF IsZero(offer.ends_at)
        THEN "ends_at: is required"
    ELSE IF ~Before(offer.starts_at, offer.ends_at)
        THEN "starts_at: must be before ends_at"
    ELSE IF After(offer.ends_at, AddSeconds(offer.starts_at, MaxOfferDays * Day))
        THEN "ends_at: offer duration cannot exceed 2 years"
    ELSE NoErr

\* ValidateTransaction; wall is the reading of time.Now()
ValidateTransaction(txn, wall) ==
    IF ValidateUUID(txn.id, "id") # NoErr
        THEN ValidateUUID(txn.id, "id")
    ELSE IF ValidateUUID(txn.user_id, "user_id") # NoErr
        THEN ValidateUUID(txn.user_id, "user_id")
    ELSE IF ValidateUUID(txn.merchant_id, "merchant_id") # NoErr
        THEN ValidateUUID(txn.merchant_id, "merchant_id")
    ELSE IF validateMCC(txn.mcc) # NoErr
        THEN validateMCC(txn.mcc)
    ELSE IF txn.amount_cents < 0
        THEN "amount_cents: must be non-negative"
    ELSE IF txn.amount_cents > MaxAmountCents
        THEN "amount_cents: exceeds maximum allowed amount"
    ELSE IF IsZero(txn.approved_at)
        THEN "approved_at: is required"
    ELSE IF After(txn.approved_at, AddSeconds(wall, Hour))
        THEN "approved_at: cannot be more than 1 hour in the future"
    ELSE IF Before(txn.approved_at, AddSeconds(wall, -(TenYearsDays * Day)))
        THEN "approved_at: cannot be more than 10 years in the past"
    ELSE NoErr

----------------------------------------------------------------------------
(* package database *)

\* SQLite's CURRENT_TIMESTAMP default: the wall clock in UTC, to the second
CurrentTimestamp(wall) == [local |-> wall.sec, zone |-> 0]

\* json.Marshal of a list of strings: the array text, token by token
RECURSIVE JoinTokens(_, _)
JoinTokens(mccList, i) ==
    IF i > Len(mccList) THEN <<>>
    ELSE (IF i > 1 THEN <<",">> ELSE <<>>) \o <<mccList[i]>>
            \o JoinTokens(mccList, i + 1)

serializeMCCWhitelist(mccList) ==
    IF Len(mccList) = 0 THEN <<"[", "]">>
    ELSE <<"[">> \o JoinTokens(mccList, 1) \o <<"]">>

\* json.Unmarshal of the array text: the elements between the separators
deserializeMCCWhitelist(serialized) ==
    IF serialized = <<>> \/ serialized = <<"[", "]">> THEN <<>>
    ELSE [i \in 1..((Len(serialized) - 1) \div 2) |-> serialized[2 * i]]

\* the value the driver binds for a Go bool
BoolToInt(b) == IF b THEN 1 ELSE 0

OfferRow(offer, wall, created) ==
    [id            |-> offer.id,
     merchant_id   |-> offer.merchant_id,
     mcc_whitelist |-> serializeMCCWhitelist(offer.mcc_whitelist),
     active        |-> BoolToInt(offer.active),
     min_txn_count |-> offer.min_txn_count,
     lookback_days |-> offer.lookback_days,
     starts_at     |-> Format(offer.starts_at),
     ends_at       |-> Format(offer.ends_at),
     created_at    |-> created,
     updated_at    |-> Format(UTC(wall))]

\* variant: the conflict clause leaves merchant_id and ends_at out of its
\* SET list, so an update keeps their stored values
UpsertRowsMerge(rows, offer, wall) ==
    IF \E i \in 1..Len(rows) : rows[i].id = offer.id
    THEN [i \in 1..Len(rows) |->
            IF rows[i].id = offer.id
            THEN [OfferRow(offer, wall, rows[i].created_at)
                    EXCEPT !.merchant_id = rows[i].merchant_id,
                           !.ends_at = rows[i].ends_at]
            ELSE rows[i]]
    ELSE Append(rows, OfferRow(offer, wall, CurrentTimestamp(wall)))

\* variant: INSERT OR REPLACE, the stored row is deleted and a new row
\* inserted at the end of the table
UpsertRowsReinsert(rows, offer, wall) ==
    Append(SelectSeq(rows, LAMBDA row : row.id # offer.id),
           OfferRow(offer, wall, CurrentTimestamp(wall)))

\* variant: ON CONFLICT(id) DO NOTHING, the first write for an id stays
UpsertRowsKeepFirst(rows, offer, wall) ==
    IF \E i \in 1..Len(rows) : rows[i].id = offer.id
    THEN rows
    ELSE Append(rows, OfferRow(offer, wall, CurrentTimestamp(wall)))

\* INSERT ... ON CONFLICT(id) DO UPDATE SET <every column but id, created_at>
UpsertRows(rows, offer, wall) ==
    IF \E i \in 1..Len(rows) : rows[i].id = offer.id
    THEN [i \in 1..Len(rows) |->
            IF rows[i].id = offer.id
            THEN OfferRow(offer, wall, rows[i].created_at)
            ELSE rows[i]]
    ELSE Append(rows, OfferRow(offer, wall, CurrentTimestamp(wall)))

\* UpsertOffer: one statement; fault is the outcome of conn.Exec
UpsertOffer(rows, offer, wall, fault) ==
    IF fault # "none"
    THEN [err |-> "failed to upsert offer", rows |-> rows]
    ELSE [err |-> NoErr, rows |-> UpsertRows(rows, offer, wall)]

\* the columns the statement supplies (created_at, filled by its default,
\* is read by no query)
TxnRow(txn, wall) ==
    [id           |-> txn.id,
     user_id      |-> txn.user_id,
     merchant_id  |-> txn.merchant_id,
     mcc          |-> txn.mcc,
     amount_cents |-> txn.amount_cents,
     approved_at  |-> Format(txn.approved_at)]

\* variant: INSERT OR REPLACE, a row with a stored id takes its place
RECURSIVE InsertLoopReplace(_, _, _, _, _)
InsertLoopReplace(tx, transactions, i, inserted, wall) ==
    IF i > Len(transactions)
    THEN [err |-> NoErr, inserted |-> inserted, tx |-> tx]
    ELSE IF \E k \in 1..Len(tx) : tx[k].id = transactions[i].id
    THEN InsertLoopReplace(
            [k \in 1..Len(tx) |->
                IF tx[k].id = transactions[i].id
                THEN TxnRow(transactions[i], wall) ELSE tx[k]],
            transactions, i + 1, inserted + 1, wall)
    ELSE InsertLoopReplace(Append(tx, TxnRow(transactions[i], wall)),
                           transactions, i + 1, inserted + 1, wall)

\* the statement loop of InsertTransactions inside the SQL transaction tx,
\* from the i-th record on: a record whose id is in the table, or was
\* inserted by an earlier statement of the loop, violates the primary key
\* and ends the loop
InsertLoop(tx, transactions, i, inserted, wall) ==
    LET n        == Len(transactions)
        stored   == {tx[k].id : k \in 1..Len(tx)}
        distinct == Cardinality({transactions[j].id : j \in i..n}) = n - i + 1
        fails    == {j \in i..n :
                        \/ transactions[j].id \in stored
                        \/ /\ ~distinct
                           /\ \E k \in i..(j - 1) :
                                 transactions[k].id = transactions[j].id}
        executed == IF fails = {} THEN n - i + 1
                    ELSE (CHOOSE j \in fails : \A k \in fails : j <= k) - i
        table    == tx \o [j \in 1..executed |->
                              TxnRow(transactions[i + j - 1], wall)]
    IN  IF fails = {}
        THEN [err |-> NoErr, inserted |-> inserted + executed, tx |-> table]
        ELSE [err |-> "failed to insert transaction", inserted |-> 0,
              tx |-> table]

\* variant: a failed statement returns without the rollback taking effect
InsertTransactionsNoRollback(rows, transactions, wall, fault) ==
    IF Len(transactions) = 0
    THEN [err |-> NoErr, count |-> 0, rows |-> rows]
    ELSE LET r == InsertLoop(rows, transactions, 1, 0, wall) IN
         IF r.err # NoErr
         THEN [err |-> r.err, count |-> 0, rows |-> r.tx]
         ELSE IF fault = "commit"
         THEN [err |-> "failed to commit transaction", count |-> 0, rows |-> rows]
         ELSE [err |-> NoErr, count |-> r.inserted, rows |-> r.tx]

\* InsertTransactions: Begin, the loop, Commit; every error return leaves
\* the deferred Rollback to discard tx
InsertTransactions(rows, transactions, wall, fault) ==
    IF Len(transactions) = 0
    THEN [err |-> NoErr, count |-> 0, rows |-> rows]
    ELSE IF fault = "begin"
    THEN [err |-> "failed to begin transaction", count |-> 0, rows |-> rows]
    ELSE LET r == InsertLoop(rows, transactions, 1, 0, wall) IN
         IF r.err # NoErr
         THEN [err |-> r.err, count |-> 0, rows |-> rows]
         ELSE IF fault = "commit"
         THEN [err |-> "failed to commit transaction", count |-> 0, rows |-> rows]
         ELSE [err |-> NoErr, count |-> r.inserted, rows |-> r.tx]

\* the models.Offer scanned from a row of offers
ScanOffer(row) ==
    [id            |-> row.id,
     merchant_id   |-> row.merchant_id,
     mcc_whitelist |-> deserializeMCCWhitelist(row.mcc_whitelist),
     active        |-> row.active # 0,
     min_txn_count |-> row.min_txn_count,
     lookback_days |-> row.lookback_days,
     starts_at     |-> Parse(row.starts_at),
     ends_at       |-> Parse(row.ends_at)]

\* WHERE active = 1 AND starts_at <= ? AND ends_at >= ?
ActiveWhere(row, nowText) ==
    /\ row.active = 1
    /\ TextLE(row.starts_at, nowText)
    /\ TextLE(nowText, row.ends_at)

RECURSIVE SelectActive(_, _, _)
SelectActive(rows, nowText, i) ==
    IF i > Len(rows) THEN <<>>
    ELSE (IF ActiveWhere(rows[i], nowText) THEN <<ScanOffer(rows[i])>> ELSE <<>>)
            \o SelectActive(rows, nowText, i + 1)

\* GetActiveOffers: the matching rows in table order
GetActiveOffers(rows, now) == SelectActive(rows, Format(now), 1)

\* variant: the window is the one day that starts lookback_days before now
MatchWhereOneDay(row, userID, offer, now) ==
    /\ row.user_id = userID
    /\ TextLE(Format(AddDays(now, -offer.lookback_days)), row.approved_at)
    /\ TextLE(row.approved_at, Format(AddDays(now, 1 - offer.lookback_days)))
    /\ \/ row.merchant_id = offer.merchant_id
       \/ /\ Len(offer.mcc_whitelist) > 0
          /\ \E k \in 1..Len(offer.mcc_whitelist) :
                row.mcc = offer.mcc_whitelist[k]

\* WHERE user_id = ? AND approved_at >= ? AND approved_at <= ?
\*   AND (merchant_id = ? [OR mcc IN (...)])
MatchWhere(row, userID, offer, now) ==
    /\ row.user_id = userID
    /\ TextLE(Format(AddDays(now, -offer.lookback_days)), row.approved_at)
    /\ TextLE(row.approved_at, Format(now))
    /\ \/ row.merchant_id = offer.merchant_id
       \/ /\ Len(offer.mcc_whitelist) > 0
          /\ \E k \in 1..Len(offer.mcc_whitelist) :
                row.mcc = offer.mcc_whitelist[k]

\* CountMatchingTransactions: SELECT COUNT(*)
CountMatchingTransactions(rows, userID, offer, now) ==
    Cardinality({i \in 1..Len(rows) : MatchWhere(rows[i], userID, offer, now)})

----------------------------------------------------------------------------
(* package service *)

\* variant: only the first record of the batch is validated
FirstInvalidHeadOnly(transactions, wall) ==
    IF Len(transactions) > 0
       /\ ValidateTransaction(transactions[1], wall) # NoErr
    THEN 1
    ELSE 0

\* the validation loop of CreateTransactions: the index of the first record
\* that ValidateTransaction rejects, 0 when every record passes
FirstInvalid(transactions, wall) ==
    IF \E i \in 1..Len(transactions) :
            ValidateTransaction(transactions[i], wall) # NoErr
    THEN CHOOSE i \in 1..Len(transactions) :
            /\ ValidateTransaction(transactions[i], wall) # NoErr
            /\ \A j \in 1..(i - 1) :
                    ValidateTransaction(transactions[j], wall) = NoErr
    ELSE 0

\* variant: the size guard rejects a batch of 1000 records too
CreateTransactionsResultLimitExclusive(rows, transactions, wall, fault) ==
    IF Len(transactions) = 0
    THEN [err |-> "no transactions provided", kind |-> "guard",
          count |-> 0, rows |-> rows, dbCalled |-> FALSE]
    ELSE IF Len(transactions) >= MaxBatchSize
    THEN [err |-> "cannot process more than 1000 transactions per request",
          kind |-> "guard", count |-> 0, rows |-> rows, dbCalled |-> FALSE]
    ELSE IF FirstInvalid(transactions, wall) # 0
    THEN [err |-> ValidateTransaction(
                      transactions[FirstInvalid(transactions, wall)], wall),
          kind |-> "validation", count |-> 0, rows |-> rows,
          dbCalled |-> FALSE]
    ELSE LET r == InsertTransactions(rows, transactions, wall, fault) IN
         IF r.err # NoErr
         THEN [err |-> r.err, kind |-> "storage", count |-> 0,
               rows |-> r.rows, dbCalled |-> TRUE]
         ELSE [err |-> NoErr, kind |-> "none", count |-> r.count,
               rows |-> r.rows, dbCalled |-> TRUE]

\* Service.CreateTransactions on the table rows; dbCalled tells whether
\* InsertTransactions was reached
CreateTransactionsResult(rows, transactions, wall, fault) ==
    IF Len(transactions) = 0
    THEN [err |-> "no transactions provided", kind |-> "guard",
          count |-> 0, rows |-> rows, dbCalled |-> FALSE]
    ELSE IF Len(transactions) > MaxBatchSize
    THEN [err |-> "cannot process more than 1000 transactions per request",
          kind |-> "guard", count |-> 0, rows |-> rows, dbCalled |-> FALSE]
    ELSE IF FirstInvalid(transactions, wall) # 0
    THEN [err |-> ValidateTransaction(
                      transactions[FirstInvalid(transactions, wall)], wall),
          kind |-> "validation", count |-> 0, rows |-> rows,
          dbCalled |-> FALSE]
    ELSE LET r == InsertTransactions(rows, transactions, wall, fault) IN
         IF r.err # NoErr
         THEN [err |-> r.err, kind |-> "storage", count |-> 0,
               rows |-> r.rows, dbCalled |-> TRUE]
         ELSE [err |-> NoErr, kind |-> "none", count |-> r.count,
               rows |-> r.rows, dbCalled |-> TRUE]

\* Service.CreateOffer on the table rows
CreateOfferResult(rows, offer, wall, fault) ==
    IF ValidateOffer(offer) # NoErr
    THEN [err |-> ValidateOffer(offer), kind |-> "validation",
          rows |-> rows, dbCalled |-> FALSE]
    ELSE LET r == UpsertOffer(rows, offer, wall, fault) IN
         IF r.err # NoErr
         THEN [err |-> r.err, kind |-> "storage", rows |-> r.rows,
               dbCalled |-> TRUE]
         ELSE [err |-> NoErr, kind |-> "none", rows |-> r.rows,
               dbCalled |-> TRUE]

\* variant: the found value printed is the threshold, not the count
ReasonFoundIsThreshold(minTxnCount, lookbackDays, matchCount) ==
    <<">= ", minTxnCount, " matching transactions in last ", lookbackDays,
      " days (found ", minTxnCount, ")">>

\* fmt.Sprintf(">= %d matching transactions in last %d days (found %d)")
Reason(minTxnCount, lookbackDays, matchCount) ==
    <<">= ", minTxnCount, " matching transactions in last ", lookbackDays,
      " days (found ", matchCount, ")">>

\* a Go slice of EligibleOffer: nil until the first append
NilSlice == [isNil |-> TRUE, items |-> <<>>]

AppendSlice(s, e) == [isNil |-> FALSE, items |-> Append(s.items, e)]

\* the loop of GetEligibleOffers over activeOffers; failAt = i makes the
\* i-th CountMatchingTransactions call return an error
RECURSIVE EvalLoop(_, _, _, _, _, _, _, _)
EvalLoop(txRows, activeOffers, i, userID, now, failAt, eligible, counts) ==
    IF i > Len(activeOffers)
    THEN [err |-> NoErr, eligible |-> eligible, counts |-> counts]
    ELSE IF failAt = i
    THEN [err |-> "failed to count transactions", eligible |-> eligible,
          counts |-> counts]
    ELSE LET offer == activeOffers[i]
             matchCount ==
                CountMatchingTransactions(txRows, userID, offer, now)
         IN EvalLoop(txRows, activeOffers, i + 1, userID, now, failAt,
                IF matchCount >= offer.min_txn_count
                THEN AppendSlice(eligible,
                        [offer_id |-> offer.id,
                         reason |-> Reason(offer.min_txn_count,
                                           offer.lookback_days, matchCount)])
                ELSE eligible,
                Append(counts, matchCount))

EmptyResponse == [user_id |-> "", eligible_offers |-> NilSlice]

\* variant: a failed count returns the verdicts reached before it
GetEligibleOffersResultPartial(offerRows, txRows, userID, now, failAt) ==
    IF ValidateUUID(userID, "user_id") # NoErr
    THEN [err |-> ValidateUUID(userID, "user_id"), kind |-> "validation",
          resp |-> EmptyResponse, active |-> <<>>, counts |-> <<>>,
          reads |-> 0]
    ELSE IF failAt = 0
    THEN [err |-> "failed to get active offers", kind |-> "storage",
          resp |-> EmptyResponse, active |-> <<>>, counts |-> <<>>,
          reads |-> 1]
    ELSE LET activeOffers == GetActiveOffers(offerRows, now)
             r == EvalLoop(txRows, activeOffers, 1, userID, now, failAt,
                           NilSlice, <<>>)
         IN [err |-> r.err,
             kind |-> IF r.err # NoErr THEN "storage" ELSE "none",
             resp |-> [user_id |-> userID, eligible_offers |-> r.eligible],
             active |-> activeOffers, counts |-> r.counts,
             reads |-> 1 + Len(r.counts) + (IF r.err # NoErr THEN 1 ELSE 0)]

\* Service.GetEligibleOffers; failAt = 0 makes GetActiveOffers fail,
\* failAt = i > 0 the i-th count, failAt = -1 nothing.  reads counts the
\* store calls made, active and counts are what they returned.
GetEligibleOffersResult(offerRows, txRows, userID, now, failAt) ==
    IF ValidateUUID(userID, "user_id") # NoErr
    THEN [err |-> ValidateUUID(userID, "user_id"), kind |-> "validation",
          resp |-> EmptyResponse, active |-> <<>>, counts |-> <<>>,
          reads |-> 0]
    ELSE IF failAt = 0
    THEN [err |-> "failed to get active offers", kind |-> "storage",
          resp |-> EmptyResponse, active |-> <<>>, counts |-> <<>>,
          reads |-> 1]
    ELSE LET activeOffers == GetActiveOffers(offerRows, now)
             r == EvalLoop(txRows, activeOffers, 1, userID, now, failAt,
                           NilSlice, <<>>)
         IN IF r.err # NoErr
            THEN [err |-> r.err, kind |-> "storage", resp |-> EmptyResponse,
                  active |-> activeOffers, counts |-> r.counts,
                  reads |-> 2 + Len(r.counts)]
            ELSE [err |-> NoErr, kind |-> "none",
                  resp |-> [user_id |-> userID, eligible_offers |-> r.eligible],
                  active |-> activeOffers, counts |-> r.counts,
                  reads |-> 1 + Len(r.counts)]

----------------------------------------------------------------------------
(* The calls, as steps of the state machine.  last records the latest call:
   its inputs, the wall clock it read, its results, and the tables as they
   were when it started. *)

NoOffer ==
    [id |-> "", merchant_id |-> "", mcc_whitelist |-> <<>>, active |-> FALSE,
     min_txn_count |-> 0, lookback_days |-> 0,
     starts_at |-> ZeroTime, ends_at |-> ZeroTime]

NoCall ==
    [op |-> "none", err |-> NoErr, kind |-> "none", dbCalled |-> FALSE,
     offer |-> NoOffer, batch |-> <<>>, count |-> 0,
     user_id |-> "", now |-> ZeroTime,
     failAt |-> -1, ctxDoneAt |-> -1, overlapped |-> FALSE,
     uncommitted |-> <<>>,
     active |-> <<>>, counts |-> <<>>, reads |-> 0, resp |-> EmptyResponse,
     wall |-> ZeroTime, preOffers |-> <<>>, preTxns |-> <<>>]

\* number of InsertTransactions calls that can be in flight together
MaxWriters == 2

\* rate limiter: tokens per window, the window and the staleness limit of
\* cleanup (time.Hour) in ticks, the concurrent Allow calls, the
\* clientLimiter objects allocated, and the last tick
Rate == 2
WindowTicks == 2
HourTicks == 3
MaxCallers == 2
MaxLimiters == 2
MaxTicker == 4

\* number of UpsertOffer calls that can be in flight together
MaxPending == 2

Writers == 1..MaxWriters

\* no SQL transaction open
\* the client keys, the goroutines that call Allow, and a goroutine that is
\* not inside Allow
Keys == {"10.0.0.1"}

Callers == 1..MaxCallers

NoAllow == [pc |-> "idle", key |-> "", limiter |-> 0]

\* no evaluation in progress
NoEvaluation ==
    [running |-> FALSE, user_id |-> "", now |-> ZeroTime, active |-> <<>>,
     i |-> 0, eligible |-> NilSlice, counts |-> <<>>]

NoTx == [open |-> FALSE, batch |-> <<>>, i |-> 0, added |-> <<>>,
         wall |-> ZeroTime]

Init ==
    /\ offers = <<>>
    /\ txns = <<>>
    /\ clock = Time(T0, 0, 0)
    /\ ticks = 0
    /\ last = NoCall
    /\ sqlTx = [w \in Writers |-> NoTx]
    /\ pendingUpserts = {}
    /\ committed = <<>>
    /\ evaluation = NoEvaluation
    /\ clients = [key \in Keys |-> 0]
    /\ limiters = <<>>
    /\ calls = [c \in Callers |-> NoAllow]
    /\ ticker = 0
    /\ granted = [key \in Keys |-> 0]

\* the wall clock advances
Tick ==
    /\ ticks < MaxTicks
    /\ ticks' = ticks + 1
    /\ clock' = AddSeconds(clock, Hour)
    /\ UNCHANGED <<offers, txns, last>>
    /\ UNCHANGED inFlight
    /\ UNCHANGED rateLimiter

CreateOffer(offer, fault) ==
    LET r == CreateOfferResult(offers, offer, clock, fault) IN
    /\ offers' = r.rows
    /\ last' = [NoCall EXCEPT !.op = "CreateOffer", !.err = r.err,
                    !.kind = r.kind, !.dbCalled = r.dbCalled,
                    !.offer = offer, !.wall = clock,
                    !.preOffers = offers, !.preTxns = txns]
    /\ UNCHANGED <<txns, clock, ticks>>
    /\ UNCHANGED inFlight
    /\ UNCHANGED rateLimiter

CreateTransactions(transactions, fault) ==
    LET r == CreateTransactionsResult(txns, transactions, clock, fault) IN
    /\ txns' = r.rows
    /\ last' = [NoCall EXCEPT !.op = "CreateTransactions", !.err = r.err,
                    !.kind = r.kind, !.dbCalled = r.dbCalled,
                    !.batch = transactions, !.count = r.count,
                    !.wall = clock,
                    !.preOffers = offers, !.preTxns = txns]
    /\ UNCHANGED <<offers, clock, ticks>>
    /\ UNCHANGED inFlight
    /\ UNCHANGED rateLimiter

\* variant: the evaluation deletes the offers its read did not return
GetEligibleOffersCtxPruning(doneAt, userID, now, failAt) ==
    LET r == GetEligibleOffersResult(offers, txns, userID, now, failAt) IN
    /\ last' = [NoCall EXCEPT !.op = "GetEligibleOffers", !.err = r.err,
                    !.kind = r.kind, !.user_id = userID, !.now = now,
                    !.failAt = failAt, !.ctxDoneAt = doneAt,
                    !.active = r.active, !.counts = r.counts,
                    !.reads = r.reads, !.resp = r.resp, !.wall = clock,
                    !.preOffers = offers, !.preTxns = txns]
    /\ offers' = IF r.err = NoErr
                 THEN SelectSeq(offers,
                         LAMBDA row : \E k \in 1..Len(r.active) :
                                         r.active[k].id = row.id)
                 ELSE offers
    /\ UNCHANGED <<txns, clock, ticks>>
    /\ UNCHANGED inFlight
    /\ UNCHANGED rateLimiter

\* GetEligibleOffers(ctx, userID, now) with a ctx that is cancelled just
\* before the call's doneAt-th store read would start (-1: never).  The
\* function hands ctx to no store call and never reads ctx.Err() or
\* ctx.Done(), so its result is that of the same call with a live ctx.
GetEligibleOffersCtx(doneAt, userID, now, failAt) ==
    LET r == GetEligibleOffersResult(offers, txns, userID, now, failAt) IN
    /\ last' = [NoCall EXCEPT !.op = "GetEligibleOffers", !.err = r.err,
                    !.kind = r.kind, !.user_id = userID, !.now = now,
                    !.failAt = failAt, !.ctxDoneAt = doneAt,
                    !.active = r.active, !.counts = r.counts,
                    !.reads = r.reads, !.resp = r.resp, !.wall = clock,
                    !.preOffers = offers, !.preTxns = txns]
    /\ UNCHANGED <<offers, txns, clock, ticks>>
    /\ UNCHANGED inFlight
    /\ UNCHANGED rateLimiter

\* the call with a ctx that stays live
GetEligibleOffers(userID, now, failAt) ==
    GetEligibleOffersCtx(-1, userID, now, failAt)

----------------------------------------------------------------------------
(* Ingestion: batches of transactions against the transactions table *)

Txn(id, user, merchant, mcc, amount, approved) ==
    [id |-> id, user_id |-> user, merchant_id |-> merchant, mcc |-> mcc,
     amount_cents |-> amount, approved_at |-> approved]

\* two records with the same id and different users, a record with another
\* id, and a record that ValidateTransaction rejects until the clock has
\* advanced (approved two hours after T0)
IngestPool ==
    {Txn("t1", "u1", "m1", "5812", 1250, Time(T0 - Day, 0, 0)),
     Txn("t1", "u2", "m1", "5812", 1250, Time(T0 - Day, 0, 0)),
     Txn("t2", "u1", "m1", "5812", 1250, Time(T0 - Day, 0, 0)),
     Txn("t3", "u1", "m2", "5411", 990, Time(T0 + 2 * Hour, 0, 0))}

RECURSIVE SeqsUpTo(_, _)
SeqsUpTo(S, n) ==
    IF n = 0 THEN {<<>>}
    ELSE LET shorter == SeqsUpTo(S, n - 1) IN
         shorter \cup {Append(q, x) : q \in shorter, x \in S}

IngestBatches == SeqsUpTo(IngestPool, MaxBatch)

\* outcomes of the store's I/O during InsertTransactions; a batch that
\* CreateTransactions rejects before the store call meets none
InsertFaults(transactions) ==
    IF CreateTransactionsResult(txns, transactions, clock, "none").dbCalled
    THEN {"none", "commit"}
    ELSE {"none"}

NextIngest ==
    \/ \E b \in IngestBatches : \E f \in InsertFaults(b) :
            CreateTransactions(b, f)
    \/ Tick

SpecIngest == Init /\ [][NextIngest]_vars

----------------------------------------------------------------------------
(* Claims about ingestion *)

IDsOf(rows) == {rows[k].id : k \in 1..Len(rows)}

\* an id of the batch equals another id of the batch or a stored id
HasDuplicateID(transactions, rows) ==
    \/ \E i, j \in 1..Len(transactions) :
            i < j /\ transactions[i].id = transactions[j].id
    \/ \E i \in 1..Len(transactions) : transactions[i].id \in IDsOf(rows)

\* C1: a batch handed to InsertTransactions that holds an id equal to
\* another id of the batch or to a stored id fails, and the transactions
\* table afterwards is the table before the call: no record of the batch is
\* persisted, those before the duplicate included.
C1_DuplicateBatchIsAllOrNothing ==
    (/\ last.op = "CreateTransactions"
     /\ last.dbCalled
     /\ HasDuplicateID(last.batch, last.preTxns))
    => (/\ last.err # NoErr
        /\ last.kind = "storage"
        /\ last.count = 0
        /\ txns = last.preTxns)

\* a valid batch whose first record is new and whose second repeats a
\* stored id was handed to the store and rejected
C1_Witness ==
    /\ last.op = "CreateTransactions"
    /\ last.dbCalled
    /\ Len(last.batch) = 2
    /\ last.batch[1].id \notin IDsOf(last.preTxns)
    /\ last.batch[2].id \in IDsOf(last.preTxns)
    /\ last.err # NoErr
    /\ txns = last.preTxns

\* C2: when a record of the batch, at any position, fails
\* ValidateTransaction, CreateTransactions returns the validation error,
\* makes no store call, and the transactions table is unchanged.
C2_ValidateAllBeforePersistingAny ==
    (/\ last.op = "CreateTransactions"
     /\ Len(last.batch) > 0
     /\ Len(last.batch) <= MaxBatchSize
     /\ \E i \in 1..Len(last.batch) :
            ValidateTransaction(last.batch[i], last.wall) # NoErr)
    => (/\ last.kind = "validation"
        /\ last.err # NoErr
        /\ ~last.dbCalled
        /\ last.count = 0
        /\ txns = last.preTxns)

\* the batch was rejected for its second record; its first was valid and new
C2_Witness ==
    /\ last.op = "CreateTransactions"
    /\ Len(last.batch) = 2
    /\ ValidateTransaction(last.batch[1], last.wall) = NoErr
    /\ last.batch[1].id \notin IDsOf(last.preTxns)
    /\ ValidateTransaction(last.batch[2], last.wall) # NoErr
    /\ last.kind = "validation"
    /\ txns = last.preTxns

----------------------------------------------------------------------------
(* Offer writes: upserts against the offers table *)

Offer(id, merchant, whitelist, active, minTxn, lookback, startsAt, endsAt) ==
    [id |-> id, merchant_id |-> merchant, mcc_whitelist |-> whitelist,
     active |-> active, min_txn_count |-> minTxn, lookback_days |-> lookback,
     starts_at |-> startsAt, ends_at |-> endsAt]

OfferIDs == {"o1", "o2"}

\* for every id: the offer of the upsert test and its second version
\* (whitelist and threshold changed), an offer that differs from it in every
\* field, with a zoned start and an end carrying half a second, and an offer
\* ValidateOffer rejects (starts_at not before ends_at)
UpsertPool ==
    UNION {
      {Offer(id, "m1", <<"5812">>, TRUE, 3, 30,
             Time(T0 - 20 * Day, 0, 0), Time(T0 + 10 * Day, 0, 0)),
       Offer(id, "m1", <<"5812", "5814">>, TRUE, 5, 30,
             Time(T0 - 20 * Day, 0, 0), Time(T0 + 10 * Day, 0, 0)),
       Offer(id, "m2", <<>>, FALSE, 0, 7,
             Time(T0 - Day, 0, 2 * Hour), Time(T0 + Day, HalfSecond, 0)),
       Offer(id, "m1", <<"5812">>, TRUE, 3, 30,
             Time(T0 + Day, 0, 0), Time(T0 + Day, 0, 0))}
      : id \in OfferIDs }

\* outcomes of the store's I/O during UpsertOffer; an offer that CreateOffer
\* rejects before the store call meets none
UpsertFaults(offer) ==
    IF ValidateOffer(offer) = NoErr THEN {"none", "exec"} ELSE {"none"}

NextOffers ==
    \/ \E o \in UpsertPool : \E f \in UpsertFaults(o) : CreateOffer(o, f)
    \/ Tick

SpecOffers == Init /\ [][NextOffers]_vars

----------------------------------------------------------------------------
(* Claims about offer writes *)

RowsWithID(rows, id) == {i \in 1..Len(rows) : rows[i].id = id}

\* the rows of the table before the call that carry another id are still
\* there, unchanged and in place, and no other row was added
OtherOffersUnchanged(pre, post, id) ==
    /\ \A i \in 1..Len(pre) :
            pre[i].id # id => (i <= Len(post) /\ post[i] = pre[i])
    /\ \A i \in 1..Len(post) :
            post[i].id # id => (i <= Len(pre) /\ pre[i] = post[i])

\* a time.Time cut to the whole second, as Format(time.RFC3339) prints it
WholeSecond(t) == [t EXCEPT !.nsec = 0]

\* the caller-supplied fields read back from row equal those of offer, the
\* two timestamps by the comparison sameTime
SuppliedFieldsEqual(row, offer, sameTime(_, _)) ==
    LET stored == ScanOffer(row) IN
    /\ stored.id = offer.id
    /\ stored.merchant_id = offer.merchant_id
    /\ stored.mcc_whitelist = offer.mcc_whitelist
    /\ stored.active = offer.active
    /\ stored.min_txn_count = offer.min_txn_count
    /\ stored.lookback_days = offer.lookback_days
    /\ sameTime(stored.starts_at, offer.starts_at)
    /\ sameTime(stored.ends_at, offer.ends_at)

SameInstant(stored, given) == TimeEqual(stored, given)

SameToTheSecond(stored, given) == stored = WholeSecond(given)

UpsertSucceeded ==
    /\ last.op = "CreateOffer"
    /\ last.dbCalled
    /\ last.err = NoErr

WholeRecordReplaced(sameTime(_, _)) ==
    UpsertSucceeded =>
        /\ Cardinality(RowsWithID(offers, last.offer.id)) = 1
        /\ \A i \in RowsWithID(offers, last.offer.id) :
                /\ SuppliedFieldsEqual(offers[i], last.offer, sameTime)
                /\ offers[i].updated_at = Format(UTC(last.wall))
        /\ OtherOffersUnchanged(last.preOffers, offers, last.offer.id)

----------------------------------------------------------------------------
(* Evaluation: offers, transactions and eligibility queries together *)

\* o1: threshold 1 over one day, by merchant m1 or code 5812, as written in
\*     UTC, in a zone one hour behind UTC with a start half an hour after
\*     T0, and switched off;
\* o2: threshold 0 over seven days with a whitelist, written in UTC and in a
\*     zone one hour ahead of UTC with a start half an hour before T0, and
\*     threshold 2 with an empty whitelist
EvalOffers ==
    {Offer("o1", "m1", <<"5812">>, TRUE, 1, 1,
           Time(T0 - 20 * Day, 0, 0), Time(T0 + 10 * Day, 0, 0)),
     Offer("o1", "m1", <<"5812">>, TRUE, 1, 1,
           Time(T0 + 30 * 60, 0, -Hour), Time(T0 + 10 * Day, 0, 0)),
     Offer("o1", "m1", <<"5812">>, FALSE, 1, 1,
           Time(T0 - 20 * Day, 0, 0), Time(T0 + 10 * Day, 0, 0)),
     Offer("o2", "m2", <<"5411", "5812">>, TRUE, 0, 7,
           Time(T0 - 20 * Day, 0, 0), Time(T0 + 10 * Day, 0, 0)),
     Offer("o2", "m2", <<"5411", "5812">>, TRUE, 0, 7,
           Time(T0 - 30 * 60, 0, Hour), Time(T0 + 10 * Day, 0, 0)),
     Offer("o2", "m2", <<>>, TRUE, 2, 7,
           Time(T0 - 20 * Day, 0, 0), Time(T0 + 10 * Day, 0, 0))}

\* t1: one day before T0 to the second, at m1;
\* t2: three days before T0, elsewhere, code 5812;
\* t3: one second after T0, written in a zone one hour behind UTC;
\* t4: one day before T0 to the second, written in a zone one hour behind
\*     UTC, of another user
EvalTxns ==
    {Txn("t1", "u1", "m1", "5411", 1000, Time(T0 - Day, 0, 0)),
     Txn("t2", "u1", "m3", "5812", 2000, Time(T0 - 3 * Day, 0, 0)),
     Txn("t3", "u1", "m1", "5812", 1500, Time(T0 + 1, 0, -Hour)),
     Txn("t4", "u2", "m1", "5411", 1250, Time(T0 - Day, 0, -Hour))}

\* one transaction per call, and the empty request
EvalBatches == {<<>>} \cup {<<x>> : x \in EvalTxns}

EvalUsers == {"u1", "u2", "not-a-uuid"}

\* the handler passes now in UTC: T0, the last second of the offers, and a
\* day after it
Nows == {Time(T0, 0, 0), Time(T0 + 10 * Day, 0, 0), Time(T0 + 11 * Day, 0, 0)}

\* which store read of the evaluation fails: none (-1), GetActiveOffers (0),
\* or the i-th CountMatchingTransactions; an evaluation that ValidateUUID
\* rejects reads nothing, and there are as many counts as active offers
ReadFaults(userID, now) ==
    IF ValidateUUID(userID, "user_id") # NoErr
    THEN {-1}
    ELSE {-1} \cup (0..Len(GetActiveOffers(offers, now)))

Next ==
    \/ \E o \in EvalOffers : CreateOffer(o, "none")
    \/ \E b \in EvalBatches : CreateTransactions(b, "none")
    \/ \E u \in EvalUsers, n \in Nows : \E f \in ReadFaults(u, n) :
            GetEligibleOffers(u, n, f)

Spec == Init /\ [][Next]_vars

----------------------------------------------------------------------------
(* Claims about evaluation.  The claims speak of instants: a stored
   timestamp stands for the instant its text denotes. *)

Range(q) == {q[i] : i \in 1..Len(q)}

\* t1 <= t2 as instants
NotAfter(t1, t2) == ~After(t1, t2)

\* the offer of row is active at now: flag set, starts_at <= now <= ends_at
ActiveAt(row, now) ==
    /\ row.active = 1
    /\ NotAfter(Parse(row.starts_at), now)
    /\ NotAfter(now, Parse(row.ends_at))

\* the transaction of row is the user's and meets the offer's criteria
MeetsCriteria(row, userID, offer) ==
    /\ row.user_id = userID
    /\ \/ row.merchant_id = offer.merchant_id
       \/ row.mcc \in Range(offer.mcc_whitelist)

\* now - lookback_days <= approved_at <= now
InLookback(row, offer, now) ==
    /\ NotAfter(AddDays(now, -offer.lookback_days), Parse(row.approved_at))
    /\ NotAfter(Parse(row.approved_at), now)

\* the number of stored transactions of the user that match the offer in
\* its lookback window
MatchingInWindow(rows, userID, offer, now) ==
    Cardinality({k \in 1..Len(rows) :
        MeetsCriteria(rows[k], userID, offer) /\ InLookback(rows[k], offer, now)})

Evaluated == last.op = "GetEligibleOffers" /\ last.err = NoErr

\* GetActiveOffers was called by the latest evaluation and returned
ActiveOffersRead ==
    /\ last.op = "GetEligibleOffers"
    /\ last.reads >= 1
    /\ last.err # "failed to get active offers"

EligibleIDs == {e.offer_id : e \in Range(last.resp.eligible_offers.items)}

\* C3: a successful GetEligibleOffers returns a stored offer if and only if
\* it is active at now and the user's matching transactions in its lookback
\* window number at least min_txn_count; it returns nothing else.
C3_EligibleIffActiveAndThresholdMet ==
    Evaluated =>
        /\ \A i \in 1..Len(offers) :
              offers[i].id \in EligibleIDs
              <=> (/\ ActiveAt(offers[i], last.now)
                   /\ MatchingInWindow(txns, last.user_id,
                            ScanOffer(offers[i]), last.now)
                        >= offers[i].min_txn_count)
        /\ EligibleIDs \subseteq {offers[i].id : i \in 1..Len(offers)}

\* C4: GetActiveOffers(now) returns exactly the stored offers with the
\* active flag set and starts_at <= now <= ends_at, each of them once.
C4_ActiveOffersAreThoseInsideTheirWindow ==
    ActiveOffersRead =>
        /\ \A i \in 1..Len(offers) :
              Cardinality({k \in 1..Len(last.active) :
                              last.active[k] = ScanOffer(offers[i])})
              = (IF ActiveAt(offers[i], last.now) THEN 1 ELSE 0)
        /\ \A k \in 1..Len(last.active) :
              \E i \in 1..Len(offers) : last.active[k] = ScanOffer(offers[i])

\* C5: every count CountMatchingTransactions returned equals the number of
\* stored transactions of the user with approved_at inside
\* [now - lookback_days, now] and the offer's merchant_id or a whitelisted
\* mcc (the merchant_id alone when the whitelist is empty).
C5_CountIsNumberOfMatchesInWindow ==
    last.op = "GetEligibleOffers" =>
        \A i \in 1..Len(last.counts) :
            last.counts[i]
            = MatchingInWindow(txns, last.user_id, last.active[i], last.now)

\* C7: for every offer the evaluation counted, a stored transaction of the
\* user that meets the criteria and was approved exactly lookback_days
\* before now is counted, and a stored transaction approved one second after
\* now is not.
C7_WindowBoundaries ==
    last.op = "GetEligibleOffers" =>
        \A i \in 1..Len(last.counts) : \A k \in 1..Len(txns) :
            /\ (/\ MeetsCriteria(txns[k], last.user_id, last.active[i])
                /\ TimeEqual(Parse(txns[k].approved_at),
                        AddDays(last.now, -last.active[i].lookback_days)))
               => MatchWhere(txns[k], last.user_id, last.active[i], last.now)
            /\ TimeEqual(Parse(txns[k].approved_at), AddSeconds(last.now, 1))
               => ~MatchWhere(txns[k], last.user_id, last.active[i], last.now)

\* C8: a stored offer that is not active at now (flag off, or now outside
\* [starts_at, ends_at]) is not among the eligible offers.
C8_InactiveOfferNeverEligible ==
    Evaluated =>
        \A i \in 1..Len(offers) :
            ~ActiveAt(offers[i], last.now) => offers[i].id \notin EligibleIDs

\* C9: a stored offer with min_txn_count = 0 that is active at now is among
\* the eligible offers of every successful evaluation.
C9_ZeroThresholdAlwaysEligible ==
    Evaluated =>
        \A i \in 1..Len(offers) :
            (offers[i].min_txn_count = 0 /\ ActiveAt(offers[i], last.now))
            => offers[i].id \in EligibleIDs

\* the eligible ids of the same evaluation over a table holding one row
AloneEligible(row) ==
    {e.offer_id : e \in Range(
        GetEligibleOffersResult(<<row>>, txns, last.user_id, last.now, -1)
            .resp.eligible_offers.items)}

\* C10: the verdict for an offer is the verdict it gets alone in the table;
\* a transaction is counted toward every counted offer whose criteria and
\* window it meets; and of two counted offers, a transaction older than the
\* shorter window and inside the longer one is counted for the longer only.
C10_OffersEvaluatedIndependently ==
    Evaluated =>
        /\ \A i \in 1..Len(offers) :
              offers[i].id \in EligibleIDs
              <=> offers[i].id \in AloneEligible(offers[i])
        /\ \A i \in 1..Len(last.counts) : \A k \in 1..Len(txns) :
              (/\ MeetsCriteria(txns[k], last.user_id, last.active[i])
               /\ InLookback(txns[k], last.active[i], last.now))
              => MatchWhere(txns[k], last.user_id, last.active[i], last.now)
        /\ \A i, j \in 1..Len(last.counts) : \A k \in 1..Len(txns) :
              (/\ last.active[i].lookback_days < last.active[j].lookback_days
               /\ MeetsCriteria(txns[k], last.user_id, last.active[i])
               /\ MeetsCriteria(txns[k], last.user_id, last.active[j])
               /\ ~InLookback(txns[k], last.active[i], last.now)
               /\ InLookback(txns[k], last.active[j], last.now))
              => (/\ ~MatchWhere(txns[k], last.user_id, last.active[i], last.now)
                  /\ MatchWhere(txns[k], last.user_id, last.active[j], last.now))

----------------------------------------------------------------------------
(* Claims about the response of an evaluation *)

\* the positions of last.active whose count reached the offer's
\* min_txn_count, in the order GetActiveOffers returned them
QualifyingPositions ==
    SelectSeq([i \in 1..Len(last.counts) |-> i],
              LAMBDA i : last.counts[i] >= last.active[i].min_txn_count)

\* the ids of the offers that qualified, in discovery order
DiscoveredQualifying ==
    [k \in 1..Len(QualifyingPositions) |->
        last.active[QualifyingPositions[k]].id]

\* C11: the response of a successful GetEligibleOffers carries the
\* requested user_id; its eligible_offers lists the qualifying offers in the
\* order the evaluation met them; and the list is an empty list, not a
\* null one, when no offer qualifies.
C11_ResponseListOrderedAndNeverNull ==
    Evaluated =>
        /\ last.resp.user_id = last.user_id
        /\ [k \in 1..Len(last.resp.eligible_offers.items) |->
                last.resp.eligible_offers.items[k].offer_id]
           = DiscoveredQualifying
        /\ ~last.resp.eligible_offers.isNil

----------------------------------------------------------------------------
(* The qualifying-user scenario: the offer and the three transactions of
   TestGetEligibleOffers_UserQualifies, evaluated at T0 *)

\* o1: threshold 3 over 30 days, merchant m1 or code 5812/5814, open from
\*     2025-10-01T00:00:00Z to 2025-10-31T23:59:59Z;
\* o2: threshold 1 over 7 days, merchant m1, no whitelist
ScenarioOffers ==
    {Offer("o1", "m1", <<"5812", "5814">>, TRUE, 3, 30,
           Time(T0 - 20 * Day - 10 * Hour, 0, 0),
           Time(T0 + 10 * Day + 14 * Hour - 1, 0, 0)),
     Offer("o2", "m1", <<>>, TRUE, 1, 7,
           Time(T0 - 20 * Day - 10 * Hour, 0, 0),
           Time(T0 + 10 * Day + 14 * Hour - 1, 0, 0))}

\* t1, t2: 2025-10-20T12:00:00Z and 2025-10-19T10:00:00Z at m1;
\* t3: 2025-10-18T08:00:00Z at another merchant, code 5814;
\* t4: eleven days before T0 and half a second, at m1, code outside the
\*     whitelist
ScenarioQualifying ==
    {Txn("t1", "u1", "m1", "5812", 1000, Time(T0 - 22 * Hour, 0, 0)),
     Txn("t2", "u1", "m1", "5812", 2000, Time(T0 - 2 * Day, 0, 0)),
     Txn("t3", "u1", "m3", "5814", 1500, Time(T0 - 3 * Day - 2 * Hour, 0, 0))}

\* and a record that takes the id t1 with every other field different
ScenarioTxns ==
    ScenarioQualifying \cup
    {Txn("t4", "u1", "m1", "5411", 1250, Time(T0 - 11 * Day, HalfSecond, 0)),
     Txn("t1", "u2", "m2", "5411", 999, Time(T0 - 5 * Day, 0, 0))}

\* a well-formed id, the same id with surrounding spaces, a string that is
\* no UUID, and the empty string
ScenarioUsers == {"u1", " u1 ", "not-a-uuid", ""}

\* the store reads of an evaluation before which its ctx can be cancelled
\* while the call is in progress: GetActiveOffers (1) and the count for
\* the i-th active offer (i + 1)
CancelPoints(userID, now) ==
    IF ValidateUUID(userID, "user_id") # NoErr
    THEN {}
    ELSE 1..(1 + Len(GetActiveOffers(offers, now)))

NextScenario ==
    \/ \E o \in ScenarioOffers : CreateOffer(o, "none")
    \/ \E x \in ScenarioTxns : CreateTransactions(<<x>>, "none")
    \/ \E u \in ScenarioUsers : \E f \in ReadFaults(u, Time(T0, 0, 0)) :
            GetEligibleOffers(u, Time(T0, 0, 0), f)
    \/ \E u \in ScenarioUsers : \E d \in CancelPoints(u, Time(T0, 0, 0)) :
            GetEligibleOffersCtx(d, u, Time(T0, 0, 0), -1)

SpecScenario == Init /\ [][NextScenario]_vars

----------------------------------------------------------------------------
(* Claims about the reason, about rejected user ids and about failed reads *)

\* the text ">= m matching transactions in last d days (found c)"
ReasonText(m, d, c) ==
    <<">= ", m, " matching transactions in last ", d, " days (found ", c, ")">>

\* the store holds the scenario: o1 as given, and exactly the three
\* transactions t1, t2, t3
ScenarioStored ==
    /\ \E i \in 1..Len(offers) :
          /\ offers[i].id = "o1"
          /\ offers[i].min_txn_count = 3
          /\ offers[i].lookback_days = 30
    /\ Range(txns) = {TxnRow(x, clock) : x \in ScenarioQualifying}

\* C12: every returned reason states the offer's own min_txn_count and
\* lookback_days and, as found, the count CountMatchingTransactions gives
\* for the user and that offer, which is at least min_txn_count; in the
\* scenario the reason of o1 is
\* ">= 3 matching transactions in last 30 days (found 3)".
C12_ReasonReportsOwnThresholdWindowAndCount ==
    Evaluated =>
        /\ Len(last.resp.eligible_offers.items) = Len(QualifyingPositions)
        /\ \A k \in 1..Len(QualifyingPositions) :
              LET i == QualifyingPositions[k]
                  offer == last.active[i]
                  found == CountMatchingTransactions(txns, last.user_id,
                                                     offer, last.now)
              IN /\ last.resp.eligible_offers.items[k].offer_id = offer.id
                 /\ last.resp.eligible_offers.items[k].reason
                    = ReasonText(offer.min_txn_count, offer.lookback_days,
                                 found)
                 /\ found >= offer.min_txn_count
        /\ (ScenarioStored /\ last.user_id = "u1" /\ last.now = Time(T0, 0, 0))
           => [offer_id |-> "o1", reason |-> ReasonText(3, 30, 3)]
                \in Range(last.resp.eligible_offers.items)

\* the scenario was evaluated with both offers stored: o1 returned with
\* found 3, o2 with a found above its threshold
C12_Witness ==
    /\ Evaluated
    /\ ScenarioStored
    /\ last.user_id = "u1"
    /\ Len(last.resp.eligible_offers.items) = 2
    /\ [offer_id |-> "o1", reason |-> ReasonText(3, 30, 3)]
            \in Range(last.resp.eligible_offers.items)
    /\ \E i \in 1..Len(last.counts) :
            last.counts[i] > last.active[i].min_txn_count

\* C13: GetEligibleOffers with a user_id that is not a well-formed UUID v4
\* fails with a validation error on user_id, returns no eligible offers,
\* and makes no store read.
C13_MalformedUserRejectedBeforeAnyRead ==
    (last.op = "GetEligibleOffers" /\ last.user_id \notin WellFormedUUIDs)
    => (/\ last.kind = "validation"
        /\ last.err \in {"user_id: is required",
                         "user_id: must be a valid UUID v4"}
        /\ last.reads = 0
        /\ last.active = <<>>
        /\ last.counts = <<>>
        /\ last.resp = EmptyResponse)

\* C14: when a store read of an evaluation fails (GetActiveOffers, or the
\* count for any one of the active offers, the last included), the call
\* returns an error and the empty response: no verdict reached before the
\* failure is returned.
C14_FailedReadAbortsWholeEvaluation ==
    (/\ last.op = "GetEligibleOffers"
     /\ last.reads >= 1
     /\ last.failAt >= 0
     /\ last.failAt <= Len(last.active))
    => (/\ last.err # NoErr
        /\ last.kind = "storage"
        /\ last.resp = EmptyResponse
        /\ last.resp.eligible_offers.items = <<>>)

\* the count for the second and last of two active offers failed after the
\* first offer had qualified
C14_Witness ==
    /\ last.op = "GetEligibleOffers"
    /\ Len(last.active) = 2
    /\ last.failAt = 2
    /\ Len(last.counts) = 1
    /\ last.counts[1] >= last.active[1].min_txn_count
    /\ last.err = "failed to count transactions"
    /\ last.resp = EmptyResponse

\* C15: when the caller's context is cancelled while GetEligibleOffers is
\* in progress, just before one of its store reads, the call starts no
\* further read and returns an error with the empty response, not the
\* verdicts reached so far.
C15_CancelledEvaluationIsAbandoned ==
    (last.op = "GetEligibleOffers" /\ last.ctxDoneAt >= 1)
    => (/\ last.err # NoErr
        /\ last.resp = EmptyResponse
        /\ last.reads < last.ctxDoneAt)

----------------------------------------------------------------------------
(* Concurrent calls.  Every store method runs its statements on a pooled
   connection of the one SQLite database: a statement is atomic, a write
   statement needs the database's write lock, and InsertTransactions keeps
   its statements inside one SQL transaction, which holds the write lock
   from its first INSERT to its Commit or Rollback. *)

RECURSIVE Flatten(_)
Flatten(batches) ==
    IF Len(batches) = 0 THEN <<>>
    ELSE Head(batches) \o Flatten(Tail(batches))

\* the rows the open SQL transactions have inserted and not committed
RECURSIVE Uncommitted(_, _)
Uncommitted(txs, w) ==
    IF w > MaxWriters THEN <<>>
    ELSE (IF txs[w].open THEN txs[w].added ELSE <<>>)
            \o Uncommitted(txs, w + 1)

\* variant: a statement outside the transaction reads its uncommitted rows
VisibleTxnsUncommitted(committedRows, txs) ==
    committedRows \o Uncommitted(txs, 1)

\* the rows of transactions a statement on another connection reads while
\* SQL transactions are open: the committed ones
VisibleTxns(committedRows, txs) == committedRows

\* variant: an INSERT never finds the database locked
WriteLockIgnored(w) == FALSE

\* some other connection's SQL transaction holds the write lock
WriteLockHeld(w) ==
    \E v \in Writers \ {w} : sqlTx[v].open /\ Len(sqlTx[v].added) > 0

\* CreateTransactions up to db.conn.Begin(): the batch passed the guards and
\* the validation loop, and the SQL transaction is open
BeginInsert(w, transactions) ==
    /\ ~sqlTx[w].open
    /\ Len(transactions) > 0
    /\ Len(transactions) <= MaxBatchSize
    /\ FirstInvalid(transactions, clock) = 0
    /\ sqlTx' = [sqlTx EXCEPT ![w] =
                    [open |-> TRUE, batch |-> transactions, i |-> 1,
                     added |-> <<>>, wall |-> clock]]
    /\ UNCHANGED <<offers, txns, clock, ticks, last, pendingUpserts,
                   committed, evaluation>>
    /\ UNCHANGED rateLimiter

\* the record of a CreateTransactions call that returned
InsertReturned(w, err, count) ==
    [NoCall EXCEPT !.op = "CreateTransactions", !.err = err,
        !.kind = IF err = NoErr THEN "none" ELSE "storage",
        !.dbCalled = TRUE, !.batch = sqlTx[w].batch, !.count = count,
        !.wall = sqlTx[w].wall, !.preOffers = offers, !.preTxns = txns]

\* one stmt.Exec of the loop: it fails when the write lock is held
\* elsewhere until the busy timeout expires, or when the id is already in
\* the table as the transaction sees it; the deferred Rollback then
\* discards the rows inserted so far
ExecInsert(w) ==
    /\ sqlTx[w].open
    /\ sqlTx[w].i <= Len(sqlTx[w].batch)
    /\ LET tx == sqlTx[w]
           r == InsertLoop(txns \o tx.added, <<tx.batch[tx.i]>>, 1, 0,
                           tx.wall)
       IN IF WriteLockHeld(w) \/ r.err # NoErr
          THEN /\ sqlTx' = [sqlTx EXCEPT ![w] = NoTx]
               /\ last' = InsertReturned(w, "failed to insert transaction", 0)
          ELSE /\ sqlTx' = [sqlTx EXCEPT
                                ![w].added = Append(@, r.tx[Len(r.tx)]),
                                ![w].i = @ + 1]
               /\ UNCHANGED last
    /\ UNCHANGED <<offers, txns, clock, ticks, pendingUpserts, committed,
                   evaluation>>
    /\ UNCHANGED rateLimiter

\* tx.Commit() after the loop
CommitInsert(w, fault) ==
    /\ sqlTx[w].open
    /\ sqlTx[w].i > Len(sqlTx[w].batch)
    /\ sqlTx' = [sqlTx EXCEPT ![w] = NoTx]
    /\ IF fault = "commit"
       THEN /\ last' = InsertReturned(w, "failed to commit transaction", 0)
            /\ UNCHANGED <<txns, committed>>
       ELSE /\ txns' = txns \o sqlTx[w].added
            /\ committed' = Append(committed, sqlTx[w].added)
            /\ last' = InsertReturned(w, NoErr, Len(sqlTx[w].added))
    /\ UNCHANGED <<offers, clock, ticks, pendingUpserts, evaluation>>
    /\ UNCHANGED rateLimiter

\* CreateOffer up to conn.Exec: the offer passed ValidateOffer and the
\* statement's arguments, time.Now() among them, are evaluated
StartUpsert(offer) ==
    /\ ValidateOffer(offer) = NoErr
    /\ Cardinality(pendingUpserts) < MaxPending
    /\ \A c \in pendingUpserts : c.offer # offer
    /\ pendingUpserts' = pendingUpserts \cup
            {[offer |-> offer, wall |-> clock, overtaken |-> FALSE]}
    /\ UNCHANGED <<offers, txns, clock, ticks, last, sqlTx, committed,
                   evaluation>>
    /\ UNCHANGED rateLimiter

\* conn.Exec of the upsert statement: it fails when a SQL transaction holds
\* the write lock until the busy timeout expires.  overtaken marks the
\* pending calls for the same id that this statement ran ahead of.
ExecUpsert(c, fault) ==
    /\ c \in pendingUpserts
    /\ LET busy == \E w \in Writers :
                        sqlTx[w].open /\ Len(sqlTx[w].added) > 0
           r == UpsertOffer(offers, c.offer, c.wall,
                            IF busy THEN "exec" ELSE fault)
       IN /\ offers' = r.rows
          /\ pendingUpserts' =
                {IF d.offer.id = c.offer.id /\ r.err = NoErr
                 THEN [d EXCEPT !.overtaken = TRUE]
                 ELSE d : d \in pendingUpserts \ {c}}
          /\ last' = [NoCall EXCEPT !.op = "CreateOffer", !.err = r.err,
                        !.kind = IF r.err = NoErr THEN "none" ELSE "storage",
                        !.dbCalled = TRUE, !.offer = c.offer,
                        !.wall = c.wall, !.overlapped = c.overtaken,
                        !.preOffers = offers, !.preTxns = txns]
    /\ UNCHANGED <<txns, clock, ticks, sqlTx, committed, evaluation>>
    /\ UNCHANGED rateLimiter

\* one GetActiveOffers query; preOffers and preTxns record the tables as
\* the statement read them, uncommitted the rows that open SQL
\* transactions had inserted by then
ReadActiveOffers(now) ==
    /\ last' = [NoCall EXCEPT !.op = "GetActiveOffers", !.now = now,
                    !.active = GetActiveOffers(offers, now), !.reads = 1,
                    !.uncommitted = Uncommitted(sqlTx, 1),
                    !.wall = clock, !.preOffers = offers,
                    !.preTxns = VisibleTxns(txns, sqlTx)]
    /\ UNCHANGED <<offers, txns, clock, ticks>>
    /\ UNCHANGED inFlight
    /\ UNCHANGED rateLimiter

\* one CountMatchingTransactions query for an offer read earlier
ReadCount(userID, offer, now) ==
    /\ last' = [NoCall EXCEPT !.op = "CountMatchingTransactions",
                    !.user_id = userID, !.now = now, !.active = <<offer>>,
                    !.counts = <<CountMatchingTransactions(
                                    VisibleTxns(txns, sqlTx), userID, offer,
                                    now)>>,
                    !.reads = 1, !.uncommitted = Uncommitted(sqlTx, 1),
                    !.wall = clock, !.preOffers = offers,
                    !.preTxns = VisibleTxns(txns, sqlTx)]
    /\ UNCHANGED <<offers, txns, clock, ticks>>
    /\ UNCHANGED inFlight
    /\ UNCHANGED rateLimiter

\* two batches that share a record: the second inserts a new record and
\* then the shared one
ConcurrentBatches ==
    {<<Txn("t1", "u1", "m1", "5812", 1000, Time(T0 - Day, 0, 0)),
       Txn("t2", "u1", "m1", "5812", 2000, Time(T0 - 2 * Day, 0, 0))>>,
     <<Txn("t3", "u1", "m1", "5411", 1500, Time(T0 - 3 * Day, 0, 0)),
       Txn("t1", "u1", "m1", "5812", 1000, Time(T0 - Day, 0, 0))>>}

\* two payloads for o1 that differ in every field, the second with a zoned
\* start and an end carrying half a second
ConcurrentOffers ==
    {Offer("o1", "m1", <<"5812">>, TRUE, 1, 30,
           Time(T0 - 20 * Day, 0, 0), Time(T0 + 10 * Day, 0, 0)),
     Offer("o1", "m2", <<>>, FALSE, 0, 7,
           Time(T0 - Day, 0, 2 * Hour), Time(T0 + Day, HalfSecond, 0))}

NextConcurrent ==
    \/ \E w \in Writers, b \in ConcurrentBatches : BeginInsert(w, b)
    \/ \E w \in Writers : ExecInsert(w)
    \/ \E w \in Writers, f \in {"none", "commit"} : CommitInsert(w, f)
    \/ \E o \in ConcurrentOffers : StartUpsert(o)
    \/ \E c \in pendingUpserts, f \in {"none", "exec"} : ExecUpsert(c, f)
    \/ ReadActiveOffers(Time(T0, 0, 0))
    \/ \E i \in 1..Len(offers) :
            ReadCount("u1", ScanOffer(offers[i]), Time(T0, 0, 0))

SpecConcurrent == Init /\ [][NextConcurrent]_vars

----------------------------------------------------------------------------
(* Claims about concurrent calls *)

StoreRead == last.op \in {"GetActiveOffers", "CountMatchingTransactions"}

\* row holds, as a whole, what one upsert of the payloads wrote
WrittenByOneUpsert(row) ==
    \E o \in ConcurrentOffers : SuppliedFieldsEqual(row, o, SameToTheSecond)

\* C16: in every interleaving, what a GetActiveOffers or
\* CountMatchingTransactions statement reads holds every committed batch
\* whole, in commit order, and no row of a batch still in flight (so none
\* of a batch that fails later); every offer it reads carries the fields of
\* one upsert, one row per id; and its result is the result over exactly
\* those rows.
C16_ReadsSeeWholeWritesOnly ==
    StoreRead =>
        /\ last.preTxns = Flatten(committed)
        /\ \A k \in 1..Len(last.uncommitted) :
              last.uncommitted[k] \notin Range(last.preTxns)
        /\ \A i \in 1..Len(last.preOffers) :
              /\ WrittenByOneUpsert(last.preOffers[i])
              /\ Cardinality(RowsWithID(last.preOffers,
                                        last.preOffers[i].id)) = 1
        /\ last.op = "CountMatchingTransactions" =>
              last.counts = <<CountMatchingTransactions(Flatten(committed),
                                last.user_id, last.active[1], last.now)>>
        /\ last.op = "GetActiveOffers" =>
              \A k \in 1..Len(last.active) :
                  \E i \in 1..Len(last.preOffers) :
                      /\ last.active[k] = ScanOffer(last.preOffers[i])
                      /\ WrittenByOneUpsert(last.preOffers[i])

\* a count for o1 ran while a batch of two had one row inserted and none
\* committed, over a table holding an earlier batch whole, and counted the
\* earlier batch only
C16_Witness ==
    /\ last.op = "CountMatchingTransactions"
    /\ Len(last.uncommitted) = 1
    /\ Len(committed) = 1
    /\ Len(last.preTxns) = 2
    /\ last.counts = <<2>>
    /\ last.active[1].id = "o1"


\* every stored offer is the only row of its id and carries, as a whole,
\* the fields of one payload; after a successful upsert the row of its id
\* carries the fields of that upsert's payload
LastWriteWins(sameTime(_, _)) ==
    /\ \A i \in 1..Len(offers) :
          /\ Cardinality(RowsWithID(offers, offers[i].id)) = 1
          /\ \E o \in ConcurrentOffers :
                SuppliedFieldsEqual(offers[i], o, sameTime)
    /\ UpsertSucceeded =>
          \A i \in RowsWithID(offers, last.offer.id) :
              SuppliedFieldsEqual(offers[i], last.offer, sameTime)

----------------------------------------------------------------------------
(* Claims about the stored transactions and offers over sequences of calls *)

\* row holds the fields of the record txn, approved_at by the comparison
\* sameTime
InsertedAs(row, txn, sameTime(_, _)) ==
    /\ row.id = txn.id
    /\ row.user_id = txn.user_id
    /\ row.merchant_id = txn.merchant_id
    /\ row.mcc = txn.mcc
    /\ row.amount_cents = txn.amount_cents
    /\ sameTime(Parse(row.approved_at), txn.approved_at)

\* a step keeps every stored transaction in place and unchanged; the rows
\* it adds are those of the batch of a successful CreateTransactions, with
\* the field values of its records
AppendOnlyStep(sameTime(_, _)) ==
    /\ Len(txns') >= Len(txns)
    /\ \A k \in 1..Len(txns) : txns'[k] = txns[k]
    /\ Len(txns') > Len(txns) =>
          /\ last'.op = "CreateTransactions"
          /\ last'.err = NoErr
          /\ Len(txns') = Len(txns) + Len(last'.batch)
          /\ \A j \in 1..Len(last'.batch) :
                InsertedAs(txns'[Len(txns) + j], last'.batch[j], sameTime)

----------------------------------------------------------------------------
(* CountMatchingTransactions as a function of lookback_days *)

\* transactions of u1 approved exactly one day before T0, three days before
\* T0 as written in a zone one hour behind UTC, seven days and a second
\* before T0, and exactly 365 days before T0
CountTxns ==
    {Txn("t1", "u1", "m1", "5411", 1000, Time(T0 - Day, 0, 0)),
     Txn("t2", "u1", "m3", "5812", 2000, Time(T0 - 3 * Day, 0, -Hour)),
     Txn("t3", "u1", "m1", "5812", 1500, Time(T0 - 7 * Day - 1, 0, 0)),
     Txn("t4", "u1", "m1", "5812", 1250, Time(T0 - 365 * Day, 0, 0))}

\* the lookback_days of the counts made
CountLookbacks == {0, 1, 3, 4, 7, 8, 364, 365}

\* the offer handed to the count: merchant m1, with and without a whitelist
CountOffers ==
    {Offer("o1", "m1", wl, TRUE, 1, d,
           Time(T0 - 20 * Day, 0, 0), Time(T0 + 10 * Day, 0, 0))
        : wl \in {<<>>, <<"5812">>}, d \in CountLookbacks}

NextCount ==
    \/ \E x \in CountTxns : CreateTransactions(<<x>>, "none")
    \/ \E u \in {"u1", "u2"}, o \in CountOffers,
          n \in {Time(T0, 0, 0), Time(T0 + Day, 0, 0)} : ReadCount(u, o, n)

SpecCount == Init /\ [][NextCount]_vars

\* the count of the latest query made again with lookback_days = d
CountWithLookback(d) ==
    CountMatchingTransactions(txns, last.user_id,
        [last.active[1] EXCEPT !.lookback_days = d], last.now)

\* C19: over the same stored transactions, user_id, now, merchant_id and
\* mcc_whitelist, CountMatchingTransactions with lookback_days = d1 is at
\* most the count with lookback_days = d2 whenever d1 <= d2, for all d1, d2
\* in 0..365.
C19_CountMonotoneInLookbackDays ==
    last.op = "CountMatchingTransactions" =>
        /\ last.counts[1] = CountWithLookback(last.active[1].lookback_days)
        /\ \A d \in 0..(MaxLookbackDays - 1) :
              CountWithLookback(d) <= CountWithLookback(d + 1)
        /\ \A d \in 0..MaxLookbackDays :
              /\ d <= last.active[1].lookback_days
                    => CountWithLookback(d) <= last.counts[1]
              /\ d >= last.active[1].lookback_days
                    => CountWithLookback(d) >= last.counts[1]

\* with all four transactions stored, the count grows with the window:
\* none for 0 days, more for 7 than for 1, all four for 365
C19_Witness ==
    /\ last.op = "CountMatchingTransactions"
    /\ Len(txns) = 4
    /\ last.active[1].lookback_days = 7
    /\ CountWithLookback(0) = 0
    /\ CountWithLookback(1) < last.counts[1]
    /\ last.counts[1] < CountWithLookback(365)
    /\ CountWithLookback(365) = 4


\* row without its updated_at
SansUpdatedAt(row) == [row EXCEPT !.updated_at = CurrentTimestamp(ZeroTime)]

\* the latest call upserted a payload over a row that holds the same
\* payload
ReUpsertedSamePayload ==
    /\ UpsertSucceeded
    /\ \E i \in RowsWithID(last.preOffers, last.offer.id) :
          SansUpdatedAt(last.preOffers[i])
          = SansUpdatedAt(OfferRow(last.offer, last.wall,
                                   last.preOffers[i].created_at))

\* instants before, at the bounds of, inside and after the windows of the
\* offers upserted
IdempotenceNows ==
    {Time(T0 + d * Day, 0, 0) : d \in {-21, -20, -1, 0, 1, 10, 11}}

\* C20: upserting a payload over a stored offer that holds the same payload
\* leaves the stored offers as they were except for that offer's
\* updated_at, and leaves the result of GetActiveOffers and of
\* GetEligibleOffers as it was, for every now.
C20_ReUpsertIsIdempotent ==
    ReUpsertedSamePayload =>
        /\ Len(offers) = Len(last.preOffers)
        /\ \A k \in 1..Len(offers) :
              /\ SansUpdatedAt(offers[k]) = SansUpdatedAt(last.preOffers[k])
              /\ offers[k].id # last.offer.id => offers[k] = last.preOffers[k]
        /\ \A now \in IdempotenceNows :
              /\ GetActiveOffers(offers, now)
                 = GetActiveOffers(last.preOffers, now)
              /\ \A u \in {"u1", "u2"} :
                    GetEligibleOffersResult(offers, txns, u, now, -1)
                    = GetEligibleOffersResult(last.preOffers, txns, u, now, -1)

\* with two offers stored, the first of them, active at T0, was upserted
\* again with its payload at a later time of day: only its updated_at moved
C20_Witness ==
    /\ ReUpsertedSamePayload
    /\ Len(offers) = 2
    /\ offers[1].id = last.offer.id
    /\ offers[1].updated_at # last.preOffers[1].updated_at
    /\ Len(GetActiveOffers(offers, Time(T0, 0, 0))) >= 1
    /\ GetActiveOffers(offers, Time(T0, 0, 0))[1].id = last.offer.id

----------------------------------------------------------------------------
(* package handler: the HTTP response to a call *)

StatusOK == 200
StatusCreated == 201
StatusBadRequest == 400
StatusInternalServerError == 500

\* respondError: the status and models.ErrorResponse{Error: message}
respondError(status, message) == [status |-> status, error |-> message]

\* the response the handler writes for the service call recorded in call:
\* every error of the service, whatever its origin, is answered with
\* respondError(http.StatusBadRequest, err.Error())
HandlerResponse(call) ==
    IF call.err # NoErr
    THEN respondError(StatusBadRequest, call.err)
    ELSE [status |-> IF call.op = "GetEligibleOffers"
                     THEN StatusOK ELSE StatusCreated,
          error |-> ""]

\* the error texts built by package database and by the service around a
\* failed store call; each wraps the driver's own message
StoreErrorTexts ==
    {"failed to upsert offer", "failed to begin transaction",
     "failed to insert transaction", "failed to commit transaction",
     "failed to get active offers", "failed to count transactions"}

\* C21: a call that failed in the store is answered with a status other
\* than the one of a validation error, and with an error text that is none
\* of the store's.
C21_StorageFailureIsOpaque ==
    (last.op # "none" /\ last.kind = "storage")
    => (/\ HandlerResponse(last).status = StatusInternalServerError
        /\ HandlerResponse(last).status # StatusBadRequest
        /\ HandlerResponse(last).error \notin StoreErrorTexts)

----------------------------------------------------------------------------
(* ValidateOffer over offers at the limits of each of its conditions *)

\* a whitelist of n distinct codes
CodeList(n) == [i \in 1..n |-> ToString(1000 + i)]

\* the offer of the upsert test with one field replaced
BaseOffer ==
    Offer("o1", "m1", <<"5812", "5814">>, TRUE, 3, 30,
          Time(T0 - 20 * Day, 0, 0), Time(T0 + 10 * Day, 0, 0))

OfferInputs ==
    {BaseOffer,
     [BaseOffer EXCEPT !.id = "o2", !.mcc_whitelist = <<>>],
     [BaseOffer EXCEPT !.id = ""],
     [BaseOffer EXCEPT !.id = "not-a-uuid"],
     [BaseOffer EXCEPT !.id = " o1 "],
     [BaseOffer EXCEPT !.merchant_id = "not-a-uuid"],
     [BaseOffer EXCEPT !.mcc_whitelist = CodeList(MaxWhitelistLen)],
     [BaseOffer EXCEPT !.mcc_whitelist = CodeList(MaxWhitelistLen + 1)],
     [BaseOffer EXCEPT !.mcc_whitelist = <<"5812", "58x2">>],
     [BaseOffer EXCEPT !.mcc_whitelist = <<"5812", "5814", "5812">>],
     [BaseOffer EXCEPT !.mcc_whitelist = <<"5812", "5812 ">>],
     [BaseOffer EXCEPT !.min_txn_count = -1],
     [BaseOffer EXCEPT !.min_txn_count = 0, !.lookback_days = 0],
     [BaseOffer EXCEPT !.lookback_days = -1],
     [BaseOffer EXCEPT !.lookback_days = MaxLookbackDays],
     [BaseOffer EXCEPT !.lookback_days = MaxLookbackDays + 1],
     [BaseOffer EXCEPT !.starts_at = ZeroTime],
     [BaseOffer EXCEPT !.ends_at = ZeroTime],
     [BaseOffer EXCEPT !.ends_at = BaseOffer.starts_at],
     [BaseOffer EXCEPT !.ends_at = AddSeconds(BaseOffer.starts_at, -1)],
     [BaseOffer EXCEPT !.ends_at = Time(T0 - 20 * Day, 1, 0)],
     [BaseOffer EXCEPT !.id = "o2",
        !.ends_at = AddDays(BaseOffer.starts_at, MaxOfferDays)],
     [BaseOffer EXCEPT
        !.ends_at = Time(T0 - 20 * Day + MaxOfferDays * Day, 1, 0)]}

NextValidateOffer ==
    \E o \in OfferInputs : \E f \in UpsertFaults(o) : CreateOffer(o, f)

SpecValidateOffer == Init /\ [][NextValidateOffer]_vars

\* the conditions of an acceptable offer, the identifiers and codes taken
\* as written
WellFormedOffer(o) ==
    /\ o.id \in WellFormedUUIDs
    /\ o.merchant_id \in WellFormedUUIDs
    /\ Len(o.mcc_whitelist) <= MaxWhitelistLen
    /\ \A i \in 1..Len(o.mcc_whitelist) :
          o.mcc_whitelist[i] \in FourDigitCodes
    /\ \A i, j \in 1..Len(o.mcc_whitelist) :
          i < j => o.mcc_whitelist[i] # o.mcc_whitelist[j]
    /\ o.min_txn_count >= 0
    /\ o.lookback_days >= 0
    /\ o.lookback_days <= MaxLookbackDays
    /\ ~IsZero(o.starts_at)
    /\ ~IsZero(o.ends_at)
    /\ Before(o.starts_at, o.ends_at)
    /\ ~After(o.ends_at, AddDays(o.starts_at, MaxOfferDays))

\* C22: CreateOffer passes ValidateOffer exactly when id and merchant_id
\* are well-formed UUID v4, the whitelist has at most 100 entries, each a
\* 4-digit code, none repeated, min_txn_count >= 0,
\* 0 <= lookback_days <= 365, both timestamps are set, starts_at is before
\* ends_at and ends_at - starts_at is at most 2 years; and when
\* ValidateOffer rejects, the store is not called and the offers are
\* unchanged.
C22_ValidateOfferAcceptsIffWellFormed ==
    last.op = "CreateOffer" =>
        /\ (last.kind # "validation") <=> WellFormedOffer(last.offer)
        /\ last.kind = "validation" =>
              (~last.dbCalled /\ offers = last.preOffers)

----------------------------------------------------------------------------
(* ValidateTransaction over transactions at the limits of its conditions *)

BaseTxn == Txn("t1", "u1", "m1", "5812", 1250, Time(T0 - Day, 0, 0))

TxnInputs ==
    {BaseTxn,
     [BaseTxn EXCEPT !.id = "not-a-uuid"],
     [BaseTxn EXCEPT !.id = " t1 "],
     [BaseTxn EXCEPT !.user_id = ""],
     [BaseTxn EXCEPT !.user_id = " u1 "],
     [BaseTxn EXCEPT !.merchant_id = "not-a-uuid"],
     [BaseTxn EXCEPT !.mcc = ""],
     [BaseTxn EXCEPT !.mcc = "58x2"],
     [BaseTxn EXCEPT !.mcc = "5812 "],
     [BaseTxn EXCEPT !.amount_cents = -1],
     [BaseTxn EXCEPT !.amount_cents = 0],
     [BaseTxn EXCEPT !.amount_cents = MaxAmountCents],
     [BaseTxn EXCEPT !.amount_cents = MaxAmountCents + 1],
     [BaseTxn EXCEPT !.approved_at = ZeroTime],
     [BaseTxn EXCEPT !.approved_at = Time(T0 + Hour, 0, 0)],
     [BaseTxn EXCEPT !.approved_at = Time(T0 + Hour, 1, 0)],
     [BaseTxn EXCEPT !.approved_at = Time(T0 + 2 * Hour, 0, 0)],
     [BaseTxn EXCEPT !.id = "t2",
        !.approved_at = Time(T0 + Hour - TenYearsDays * Day, 0, 0)],
     [BaseTxn EXCEPT !.approved_at = Time(T0 - TenYearsDays * Day, 0, 0)],
     [BaseTxn EXCEPT !.approved_at = Time(T0 - TenYearsDays * Day - 1, 0, 0)]}

NextValidateTransaction ==
    \/ \E x \in TxnInputs : \E f \in InsertFaults(<<x>>) :
            CreateTransactions(<<x>>, f)
    \/ Tick

SpecValidateTransaction == Init /\ [][NextValidateTransaction]_vars

\* the conditions of an acceptable transaction at ingestion time wall, the
\* identifiers and the code taken as written
WellFormedTxn(x, wall) ==
    /\ x.id \in WellFormedUUIDs
    /\ x.user_id \in WellFormedUUIDs
    /\ x.merchant_id \in WellFormedUUIDs
    /\ x.mcc \in FourDigitCodes
    /\ x.amount_cents >= 0
    /\ x.amount_cents <= MaxAmountCents
    /\ ~IsZero(x.approved_at)
    /\ ~Before(x.approved_at, AddSeconds(wall, -(TenYearsDays * Day)))
    /\ ~After(x.approved_at, AddSeconds(wall, Hour))

\* C23: a transaction passes ValidateTransaction exactly when id, user_id
\* and merchant_id are well-formed UUID v4, mcc is a 4-digit code,
\* 0 <= amount_cents <= 100,000,000, and approved_at is set and lies
\* between 10 years before and 1 hour after the ingestion time, both limits
\* included; a transaction approved up to 1 hour in the future that is
\* ingested successfully is in the store.
C23_ValidateTransactionAcceptsIffWellFormed ==
    (last.op = "CreateTransactions" /\ Len(last.batch) = 1) =>
        /\ (last.kind # "validation")
              <=> WellFormedTxn(last.batch[1], last.wall)
        /\ (/\ last.kind = "none"
            /\ After(last.batch[1].approved_at, last.wall))
              => TxnRow(last.batch[1], last.wall) \in Range(txns)

----------------------------------------------------------------------------
(* Claims about a successful ingest and about the batch size guard *)

----------------------------------------------------------------------------
(* Claim about the zone of the stored and compared timestamps *)

\* the text is in UTC, written with the suffix Z
InUTC(text) == text.zone = 0

\* C25: every timestamp the store holds or compares (the offers' starts_at
\* and ends_at, the transactions' approved_at, the evaluation's now) is in
\* UTC with the suffix Z, so that the window tests of GetActiveOffers and
\* CountMatchingTransactions agree with the order of the instants, also for
\* timestamps supplied with another offset.
C25_TimestampsStoredAndComparedInUTC ==
    /\ \A i \in 1..Len(offers) :
          InUTC(offers[i].starts_at) /\ InUTC(offers[i].ends_at)
    /\ \A k \in 1..Len(txns) : InUTC(txns[k].approved_at)
    /\ ActiveOffersRead =>
          /\ InUTC(Format(last.now))
          /\ \A i \in 1..Len(offers) :
                (ScanOffer(offers[i]) \in Range(last.active))
                    <=> ActiveAt(offers[i], last.now)
          /\ \A i \in 1..Len(last.counts) :
                last.counts[i]
                = MatchingInWindow(txns, last.user_id, last.active[i],
                                   last.now)

----------------------------------------------------------------------------
(* Batches at the size limit of CreateTransactions *)

\* n valid records with pairwise distinct ids
BigBatch(n) ==
    [i \in 1..n |->
        Txn("b" \o ToString(i), "u1", "m1", "5812", 100,
            Time(T0 - Day, 0, 0))]

\* the empty batch, batches of 1000 and of 1001 valid records, the same
\* with a record ValidateTransaction rejects, and single records (one of
\* them approved too far in the future)
GuardBatches ==
    {<<>>, BigBatch(MaxBatchSize), BigBatch(MaxBatchSize + 1),
     [BigBatch(MaxBatchSize + 1) EXCEPT ![1].mcc = "58x2"],
     [BigBatch(MaxBatchSize) EXCEPT ![MaxBatchSize].mcc = "58x2"]}
        \cup {<<x>> : x \in {y \in IngestPool : y.user_id = "u1"}}

NextGuard ==
    \E b \in GuardBatches : \E f \in InsertFaults(b) :
        CreateTransactions(b, f)

SpecGuard == Init /\ [][NextGuard]_vars

\* every record of the batch is valid, its ids are pairwise distinct and
\* none of them was stored before the call
ValidNewBatch ==
    /\ \A j \in 1..Len(last.batch) : WellFormedTxn(last.batch[j], last.wall)
    /\ Cardinality(IDsOf(last.batch)) = Len(last.batch)
    /\ IDsOf(last.batch) \cap IDsOf(last.preTxns) = {}

\* C26: CreateTransactions applies the batch size guard before validation
\* and storage: an empty batch and a batch of more than 1000 transactions
\* are rejected with the guard's error, a count of 0 and an unchanged store,
\* without validating a record or calling the store; a batch of exactly
\* 1000 valid new transactions passes the guard and validation and, unless
\* the commit fails, is stored whole with a count of 1000.
C26_BatchSizeGuard ==
    last.op = "CreateTransactions" =>
        /\ Len(last.batch) = 0 =>
              /\ last.err = "no transactions provided"
              /\ last.count = 0
              /\ ~last.dbCalled
              /\ txns = last.preTxns
        /\ Len(last.batch) > MaxBatchSize =>
              /\ last.err
                 = "cannot process more than 1000 transactions per request"
              /\ last.count = 0
              /\ ~last.dbCalled
              /\ txns = last.preTxns
        /\ (Len(last.batch) = MaxBatchSize /\ ValidNewBatch) =>
              /\ last.dbCalled
              /\ last.err \in {NoErr, "failed to commit transaction"}
              /\ last.err = NoErr =>
                    /\ last.count = MaxBatchSize
                    /\ Len(txns) = Len(last.preTxns) + MaxBatchSize

\* a batch of exactly 1000 valid new transactions was ingested into a store
\* that already held a transaction
C26_Witness ==
    /\ last.op = "CreateTransactions"
    /\ Len(last.batch) = MaxBatchSize
    /\ ValidNewBatch
    /\ last.err = NoErr
    /\ last.count = MaxBatchSize
    /\ Len(last.preTxns) >= 1
    /\ Len(txns) = Len(last.preTxns) + MaxBatchSize

----------------------------------------------------------------------------
(* Claim about what an evaluation changes and what its result depends on *)

\* a step that is an evaluation changes neither table, and an evaluation
\* that follows a successful evaluation of the same user_id and now, with
\* nothing written in between, returns the same list when it succeeds
ReadOnlyDeterministicStep ==
    last'.op = "GetEligibleOffers" =>
        /\ offers' = offers
        /\ txns' = txns
        /\ last'.preOffers = offers
        /\ last'.preTxns = txns
        /\ (/\ last.op = "GetEligibleOffers"
            /\ last.err = NoErr
            /\ last'.err = NoErr
            /\ last'.user_id = last.user_id
            /\ last'.now = last.now)
              => last'.resp = last.resp

----------------------------------------------------------------------------
(* Claim about concurrent ingests of batches that share an id *)

\* the table holds one row for each record of the batch b, and nothing else
StoredWhole(b) ==
    /\ Len(txns) = Len(b)
    /\ \A j \in 1..Len(b) : InsertedAs(txns[j], b[j], SameToTheSecond)

\* C28: of CreateTransactions calls that run concurrently with batches
\* sharing a transaction id at most one succeeds; the store holds every
\* record of the successful batch and no record of a failed one, so no id
\* is stored twice and no batch is stored in part.  (Every two batches of
\* ConcurrentBatches share the id t1.)
C28_ConcurrentIngestsSharingAnId ==
    /\ Len(committed) <= 1
    /\ Cardinality(IDsOf(txns)) = Len(txns)
    /\ txns = <<>> \/ \E b \in ConcurrentBatches : StoredWhole(b)
    /\ (last.op = "CreateTransactions" /\ last.err = NoErr) =>
          (StoredWhole(last.batch) /\ last.count = Len(last.batch))
    /\ (last.op = "CreateTransactions" /\ last.err # NoErr) =>
          (last.count = 0 /\ txns = last.preTxns
           /\ txns = Flatten(committed))

\* one call has failed and returned while the SQL transaction of a call
\* with the other batch was open with a row inserted, and nothing is stored
C28_Witness ==
    /\ last.op = "CreateTransactions"
    /\ last.err # NoErr
    /\ txns = <<>>
    /\ \E w \in Writers :
          /\ sqlTx[w].open
          /\ Len(sqlTx[w].added) >= 1
          /\ sqlTx[w].batch # last.batch
          /\ IDsOf(sqlTx[w].batch) \cap IDsOf(last.batch) # {}

----------------------------------------------------------------------------
(* An evaluation, read by read, concurrent with upserts and ingests *)

\* variant: each iteration reads the offer's row again from the table
LoopOfferReread(offerRows, activeOffers, i) ==
    IF \E r \in 1..Len(offerRows) : offerRows[r].id = activeOffers[i].id
    THEN ScanOffer(offerRows[CHOOSE r \in 1..Len(offerRows) :
                                offerRows[r].id = activeOffers[i].id])
    ELSE activeOffers[i]

\* the loop variable of "for _, offer := range activeOffers": the i-th
\* element of the slice GetActiveOffers returned; the loop reads the offers
\* table no more
LoopOffer(offerRows, activeOffers, i) == activeOffers[i]

\* GetEligibleOffers up to the return of GetActiveOffers
BeginEvaluation(userID, now) ==
    /\ ~evaluation.running
    /\ ValidateUUID(userID, "user_id") = NoErr
    /\ evaluation' = [running |-> TRUE, user_id |-> userID, now |-> now,
                      active |-> GetActiveOffers(offers, now), i |-> 1,
                      eligible |-> NilSlice, counts |-> <<>>]
    /\ UNCHANGED <<offers, txns, clock, ticks, last, sqlTx, pendingUpserts,
                   committed>>
    /\ UNCHANGED rateLimiter

\* one iteration of the loop: CountMatchingTransactions for the offer, the
\* threshold test and the append; a failed count ends the call
CountNext(fault) ==
    /\ evaluation.running
    /\ evaluation.i <= Len(evaluation.active)
    /\ LET offer == LoopOffer(offers, evaluation.active, evaluation.i)
           r == EvalLoop(VisibleTxns(txns, sqlTx), <<offer>>, 1,
                         evaluation.user_id, evaluation.now,
                         IF fault THEN 1 ELSE -1,
                         evaluation.eligible, evaluation.counts)
       IN IF r.err # NoErr
          THEN /\ evaluation' = NoEvaluation
               /\ last' = [NoCall EXCEPT !.op = "GetEligibleOffers",
                             !.err = r.err, !.kind = "storage",
                             !.user_id = evaluation.user_id,
                             !.now = evaluation.now,
                             !.active = evaluation.active,
                             !.counts = evaluation.counts,
                             !.reads = 2 + Len(evaluation.counts),
                             !.wall = clock, !.preOffers = offers,
                             !.preTxns = txns]
          ELSE /\ evaluation' = [evaluation EXCEPT
                                    !.i = @ + 1,
                                    !.eligible = r.eligible,
                                    !.counts = r.counts]
               /\ UNCHANGED last
    /\ UNCHANGED <<offers, txns, clock, ticks, sqlTx, pendingUpserts,
                   committed>>
    /\ UNCHANGED rateLimiter

\* the response after the loop; preOffers and preTxns record the tables as
\* they are when the call returns
ReturnEvaluation ==
    /\ evaluation.running
    /\ evaluation.i > Len(evaluation.active)
    /\ evaluation' = NoEvaluation
    /\ last' = [NoCall EXCEPT !.op = "GetEligibleOffers",
                    !.user_id = evaluation.user_id, !.now = evaluation.now,
                    !.active = evaluation.active,
                    !.counts = evaluation.counts,
                    !.reads = 1 + Len(evaluation.counts),
                    !.resp = [user_id |-> evaluation.user_id,
                              eligible_offers |-> evaluation.eligible],
                    !.wall = clock, !.preOffers = offers, !.preTxns = txns]
    /\ UNCHANGED <<offers, txns, clock, ticks, sqlTx, pendingUpserts,
                   committed>>
    /\ UNCHANGED rateLimiter

\* three payloads for o1, two active ones that differ in merchant,
\* whitelist, threshold and lookback and an inactive one, and one for o2
OfferVersions ==
    {Offer("o1", "m1", <<"5812">>, TRUE, 1, 30,
           Time(T0 - 20 * Day, 0, 0), Time(T0 + 10 * Day, 0, 0)),
     Offer("o1", "m2", <<"5411">>, TRUE, 2, 7,
           Time(T0 - 5 * Day, 0, 0), Time(T0 + 20 * Day, 0, 0)),
     Offer("o1", "m1", <<"5812">>, FALSE, 1, 30,
           Time(T0 - 20 * Day, 0, 0), Time(T0 + 10 * Day, 0, 0)),
     Offer("o2", "m3", <<>>, TRUE, 0, 1,
           Time(T0 - 20 * Day, 0, 0), Time(T0 + 10 * Day, 0, 0))}

\* transactions of u1 that the versions of o1 count differently
VersionTxns ==
    {Txn("t1", "u1", "m1", "5812", 1000, Time(T0 - Day, 0, 0)),
     Txn("t2", "u1", "m2", "5411", 2000, Time(T0 - 10 * Day, 0, 0)),
     Txn("t3", "u1", "m3", "5411", 1500, Time(T0 - 2 * Day, 0, 0))}

NextEvaluation ==
    \/ \E o \in OfferVersions : StartUpsert(o)
    \/ \E c \in pendingUpserts : ExecUpsert(c, "none")
    \/ \E x \in VersionTxns : CreateTransactions(<<x>>, "none")
    \/ BeginEvaluation("u1", Time(T0, 0, 0))
    \/ \E fault \in BOOLEAN : CountNext(fault)
    \/ ReturnEvaluation

SpecEvaluation == Init /\ [][NextEvaluation]_vars

\* the verdict reported for the offer of id, as a set: empty when the offer
\* is not in the response
VerdictsFor(id) ==
    {e \in Range(last.resp.eligible_offers.items) : e.offer_id = id}

\* the transactions are only ever appended, so what a count read is a
\* prefix of the table at the return of the call
CountOverSomePrefix(c, v) ==
    \E n \in 0..Len(last.preTxns) :
        c = MatchingInWindow(SubSeq(last.preTxns, 1, n), last.user_id, v,
                             last.now)

\* C29: when an evaluation runs concurrently with upserts of an offer,
\* every verdict is computed from one version of the offer, the one its
\* GetActiveOffers read returned: that version is one whole payload, it is
\* active at now, the count is the count for its merchant_id, mcc_whitelist
\* and lookback_days, the offer is reported exactly when that count reaches
\* its min_txn_count, and the reason shows its min_txn_count and
\* lookback_days with that count.
C29_VerdictFromOneOfferVersion ==
    Evaluated =>
        /\ Len(last.counts) = Len(last.active)
        /\ \A k \in 1..Len(last.active) :
              LET v == last.active[k] IN
              /\ v \in OfferVersions
              /\ v.active
              /\ NotAfter(v.starts_at, last.now)
              /\ NotAfter(last.now, v.ends_at)
              /\ CountOverSomePrefix(last.counts[k], v)
              /\ VerdictsFor(v.id)
                 = (IF last.counts[k] >= v.min_txn_count
                    THEN {[offer_id |-> v.id,
                           reason |-> ReasonText(v.min_txn_count,
                                          v.lookback_days, last.counts[k])]}
                    ELSE {})
        /\ EligibleIDs \subseteq {last.active[k].id : k \in 1..Len(last.active)}

\* an evaluation returned a verdict for o1 computed from the version it had
\* read, while the table held another version of o1 by the time it returned,
\* one under which the count or the threshold differ
C29_Witness ==
    /\ Evaluated
    /\ Len(last.preTxns) >= 2
    /\ \E k \in 1..Len(last.active) : \E i \in 1..Len(last.preOffers) :
          /\ last.active[k].id = "o1"
          /\ last.preOffers[i].id = "o1"
          /\ ScanOffer(last.preOffers[i]) # last.active[k]
          /\ ScanOffer(last.preOffers[i]).merchant_id
                # last.active[k].merchant_id
          /\ last.counts[k] >= 1

----------------------------------------------------------------------------
(* package middleware: the rate limiter, Allow calls step by step *)

storeVars ==
    <<offers, txns, clock, ticks, last, sqlTx, pendingUpserts, committed,
      evaluation>>

min(a, b) == IF a < b THEN a ELSE b

\* the refill of Allow at time now: a full bucket after a whole window,
\* otherwise int(rate * elapsed / window) tokens, lastUpdate moving only
\* when a token was added
Refill(limiter, now) ==
    LET elapsed == now - limiter.lastUpdate IN
    IF elapsed >= WindowTicks
    THEN [tokens |-> Rate, lastUpdate |-> now]
    ELSE LET tokensToAdd == (Rate * elapsed) \div WindowTicks IN
         IF tokensToAdd > 0
         THEN [tokens |-> min(limiter.tokens + tokensToAdd, Rate),
               lastUpdate |-> now]
         ELSE limiter

\* Allow, lines 63-67: the lookup under the read lock
Lookup(c, key) ==
    /\ calls[c].pc = "idle"
    /\ calls' = [calls EXCEPT ![c] =
                    [pc |-> IF clients[key] # 0 THEN "found" ELSE "missing",
                     key |-> key, limiter |-> clients[key]]]
    /\ UNCHANGED <<clients, limiters, ticker, granted>>
    /\ UNCHANGED storeVars

\* Allow, lines 68-77: under the write lock, the second lookup and the new
\* clientLimiter with a full bucket
Create(c) ==
    /\ calls[c].pc = "missing"
    /\ IF clients[calls[c].key] # 0
       THEN /\ calls' = [calls EXCEPT ![c].pc = "found",
                                      ![c].limiter = clients[calls[c].key]]
            /\ UNCHANGED <<clients, limiters>>
       ELSE /\ Len(limiters) < MaxLimiters
            /\ limiters' = Append(limiters,
                                  [tokens |-> Rate, lastUpdate |-> ticker])
            /\ clients' = [clients EXCEPT ![calls[c].key] = Len(limiters) + 1]
            /\ calls' = [calls EXCEPT ![c].pc = "found",
                                      ![c].limiter = Len(limiters) + 1]
    /\ UNCHANGED <<ticker, granted>>
    /\ UNCHANGED storeVars

\* Allow, lines 80-102: under the clientLimiter's mutex, the refill and the
\* take; the call returns true when it took a token
Take(c) ==
    /\ calls[c].pc = "found"
    /\ LET l == calls[c].limiter
           refilled == Refill(limiters[l], ticker)
       IN IF refilled.tokens > 0
          THEN /\ limiters' = [limiters EXCEPT ![l] =
                                  [refilled EXCEPT !.tokens = @ - 1]]
               /\ granted' = [granted EXCEPT ![calls[c].key] = @ + 1]
          ELSE /\ limiters' = [limiters EXCEPT ![l] = refilled]
               /\ UNCHANGED granted
    /\ calls' = [calls EXCEPT ![c] = NoAllow]
    /\ UNCHANGED <<clients, ticker>>
    /\ UNCHANGED storeVars

\* one run of cleanup under the write lock: the entries not updated for
\* more than an hour are deleted from the map
cleanup ==
    /\ clients' = [key \in Keys |->
                      IF /\ clients[key] # 0
                         /\ ticker - limiters[clients[key]].lastUpdate
                                > HourTicks
                      THEN 0 ELSE clients[key]]
    /\ clients' # clients
    /\ UNCHANGED <<limiters, calls, ticker, granted>>
    /\ UNCHANGED storeVars

\* time passes
Elapse ==
    /\ ticker < MaxTicker
    /\ ticker' = ticker + 1
    /\ granted' = [key \in Keys |-> 0]
    /\ UNCHANGED <<clients, limiters, calls>>
    /\ UNCHANGED storeVars

NextRateLimiter ==
    \/ \E c \in Callers, key \in Keys : Lookup(c, key)
    \/ \E c \in Callers : Create(c)
    \/ \E c \in Callers : Take(c)
    \/ cleanup
    \/ Elapse

SpecRateLimiter == Init /\ [][NextRateLimiter]_vars

\* C30: for every key and every interleaving of Allow calls and cleanup
\* runs, the token count of every clientLimiter stays within 0..rate, and
\* of the Allow calls for one key made while no time elapses at most rate
\* return true.
C30_AtMostRateGrantsPerKey ==
    /\ \A l \in 1..Len(limiters) :
          limiters[l].tokens >= 0 /\ limiters[l].tokens <= Rate
    /\ \A key \in Keys : granted[key] <= Rate

====
